---- MODULE Spec2Model ----
(***************************************************************************)
(* Frame lifecycle of the gentoo renderer: Renderer (begin_frame /         *)
(* end_frame / recreate_swapchain), Swapchain (acquire / submit / present, *)
(* per-slot fences) and the GPU that completes submitted batches.          *)
(* Further specifications cover the pure helpers (compare_swap_formats),   *)
(* PointLightSystem::update and the callers of Buffer::write_to_buffer.    *)
(***************************************************************************)
EXTENDS Integers, Sequences, FiniteSets, TLC

\* ---------------------------------------------------------------- constants
MAX_FRAMES_IN_FLIGHT == 2
MAX_LIGHTS == 10
\* ash::vk::*::null() / Option::None of a handle
NullHandle == 0
\* u32::MAX, the "current extent undefined" marker of the surface
\* capabilities; stands in as the largest integer the checker represents
U32_MAX == 2147483647

\* ------------------------------------------------------------------- bounds
\* number of swapchain handles the driver hands out in one run
MaxSwapchains == 2
\* largest min_image_count a surface reports (the smallest is 1)
MaxMinImages == 1
\* largest number of entities in the game-object mapping
MaxObjects == 11
\* largest vertex count, index count and font image side
MaxVertices == 4
MaxIndices == 3
MaxFontDim == 2
\* largest small image count a surface reports as minimum or maximum (the
\* counts next to u32::MAX are always included)
MaxCapCount == 8
\* largest width or height of the extents a surface and a window report
MaxExtentDim == 2
\* largest binding index declared on a descriptor set layout builder
MaxBinding == 2
\* largest number of entities created in one process
MaxCreated == 257

Slots == 0 .. (MAX_FRAMES_IN_FLIGHT - 1)
\* window sizes: the 800 x 600 the application opens with, and the same with
\* the width, the height or both collapsed to 0 (minimised)
Extents == {0, 800} \X {0, 600}

Min(a, b) == IF a < b THEN a ELSE b
Max(a, b) == IF a > b THEN a ELSE b

\* ------------------------------------------------- what the surface reports
\* formats: available surface formats in driver order; depth: depth formats
\* supporting optimal-tiling depth attachments.
SurfaceFormatLists ==
    { <<"R8G8B8A8_UNORM", "B8G8R8A8_SRGB">>, <<"R8G8B8A8_UNORM">> }
DepthSupport == { {"D32_SFLOAT", "D32_SFLOAT_S8_UINT"}, {"D32_SFLOAT_S8_UINT"} }
ImageCaps ==
    UNION { { [min_image_count |-> m, max_image_count |-> x] : x \in {0, m} } :
            m \in 1 .. MaxMinImages }

\* Surface capabilities for a window of extent we; the surface reports the
\* window's size as its current extent.
Surfaces(we) ==
    { [formats |-> f, depth |-> d, caps |-> c,
       current_extent |-> we,
       min_image_extent |-> <<1, 1>>,
       max_image_extent |-> <<4096, 4096>>] :
        f \in SurfaceFormatLists, d \in DepthSupport, c \in ImageCaps }

\* The surface the application starts on.
InitialSurfaces(we) ==
    { s \in Surfaces(we) : /\ s.formats = <<"R8G8B8A8_UNORM", "B8G8R8A8_SRGB">>
                           /\ s.depth = {"D32_SFLOAT", "D32_SFLOAT_S8_UINT"}
                           /\ s.current_extent = we }

\* ----------------------------------------------------- Swapchain (pure part)
choose_surface_format(available_formats) ==
    IF \E i \in 1 .. Len(available_formats) :
            available_formats[i] = "B8G8R8A8_SRGB"
    THEN "B8G8R8A8_SRGB"
    ELSE available_formats[1]

FirstIn(candidates, supported, i) ==
    IF candidates[i] \in supported THEN candidates[i]
    ELSE IF candidates[i + 1] \in supported THEN candidates[i + 1]
    ELSE candidates[i + 2]

find_depth_format(supported) ==
    FirstIn(<<"D32_SFLOAT", "D32_SFLOAT_S8_UINT", "D32_SFLOAT_S8_UINT">>,
            supported, 1)

\* the window extent taken as it is when the surface leaves the extent open
unclamped_extent(surface, window_extent) ==
    IF surface.current_extent[1] # U32_MAX
    THEN surface.current_extent
    ELSE window_extent

choose_extent(surface, window_extent) ==
    IF surface.current_extent[1] # U32_MAX
    THEN surface.current_extent
    ELSE << Max(surface.min_image_extent[1],
                Min(surface.max_image_extent[1], window_extent[1])),
            Max(surface.min_image_extent[2],
                Min(surface.max_image_extent[2], window_extent[2])) >>

\* a + 1 on a u32 in a build without overflow checks
u32_wrapping_inc(a) == IF a = U32_MAX THEN 0 ELSE a + 1

image_count(caps) ==
    IF caps.max_image_count > 0
       /\ u32_wrapping_inc(caps.min_image_count) > caps.max_image_count
    THEN caps.max_image_count
    ELSE u32_wrapping_inc(caps.min_image_count)

\* The in-flight fence created for frame slot s of the swapchain with handle h.
FenceOf(h, s) == (h - 1) * MAX_FRAMES_IN_FLIGHT + s + 1

\* The semaphores created for frame slot s of the swapchain with handle h.
SemaphoreOf(kind, h, s) == <<kind, h, s>>

\* (variant: one image-in-flight entry per frame slot instead of per image)
sync_objects_per_slot(h, n) ==
    [image_available_semaphores |->
        [s \in Slots |-> SemaphoreOf("image_available", h, s)],
     render_finished_semaphores |->
        [s \in Slots |-> SemaphoreOf("render_finished", h, s)],
     in_flight_fences |-> [s \in Slots |-> FenceOf(h, s)],
     images_in_flight |-> [i \in Slots |-> NullHandle]]

create_sync_objects(h, n) ==
    [image_available_semaphores |->
        [s \in Slots |-> SemaphoreOf("image_available", h, s)],
     render_finished_semaphores |->
        [s \in Slots |-> SemaphoreOf("render_finished", h, s)],
     in_flight_fences |-> [s \in Slots |-> FenceOf(h, s)],
     images_in_flight |-> [i \in 0 .. (n - 1) |-> NullHandle]]

\* Swapchain::new with the driver handing out handle h.
Swapchain_new(h, window_extent, surface) ==
    LET n == image_count(surface.caps)
        sync == create_sync_objects(h, n)
    IN  [swapchain_khr |-> h,
         swapchain_image_format |-> choose_surface_format(surface.formats),
         swapchain_depth_format |-> find_depth_format(surface.depth),
         swapchain_extent |-> choose_extent(surface, window_extent),
         image_count |-> n,
         image_available_semaphores |-> sync.image_available_semaphores,
         render_finished_semaphores |-> sync.render_finished_semaphores,
         in_flight_fences |-> sync.in_flight_fences,
         images_in_flight |-> sync.images_in_flight,
         current_frame |-> 0]

\* (variant: only the image format is compared)
compare_image_format_only(self, other_swapchain) ==
    IF other_swapchain.swapchain_image_format = self.swapchain_image_format
    THEN "Ok"
    ELSE "CompareSwapFormatsError"

compare_swap_formats(self, other_swapchain) ==
    IF /\ other_swapchain.swapchain_depth_format = self.swapchain_depth_format
       /\ other_swapchain.swapchain_image_format = self.swapchain_image_format
    THEN "Ok"
    ELSE "CompareSwapFormatsError"

FencesOf(sc) == { sc.in_flight_fences[s] : s \in Slots }

\* Semaphore signal operations as a validation layer tracks them: sems.pending
\* holds the semaphores with a signal pending; the waits on the semaphores in
\* waited are performed, then those in signals are signaled. Nothing is
\* recorded unless sems.tracked.
track(sems, waited, signals) ==
    IF sems.tracked
    THEN [sems EXCEPT !.pending = (@ \ waited) \cup signals]
    ELSE sems

SemaphoresOf(sc) ==
    { sc.image_available_semaphores[s] : s \in Slots }
        \cup { sc.render_finished_semaphores[s] : s \in Slots }

\* (variant: fences created without the SIGNALED flag)
initially_unsignaled(sc) == {}

\* create_sync_objects creates every in-flight fence with the SIGNALED flag
initially_signaled(sc) == FencesOf(sc)


\* what Drop for Swapchain hands to destroy_swapchain
dropped_khr(sc) ==
    IF sc.swapchain_khr # NullHandle THEN {sc.swapchain_khr} ELSE {}

\* ------------------------------------------------------------------- state
VARIABLES
    window_extent,        \* Window::raw_window.inner_size()
    swapchain,            \* Renderer.swapchain
    is_frame_started,     \* Renderer.is_frame_started
    current_frame_index,  \* Renderer.current_frame_index
    current_image_index,  \* Renderer.current_image_index
    next_handle,          \* next swapchain handle the driver hands out
    live_khr,             \* swapchain handles created and not destroyed
    signaled,             \* fences in the signaled state
    semaphores,           \* semaphore signals pending, where they are tracked
    pending,              \* batches submitted to the graphics queue, FIFO
    cpu,                  \* position of the CPU thread
    aborted,              \* "none" or the panic message
    last,                 \* last call or event: operation, result, value
    calls,                \* device calls it made: <<name, arg, result>>
    frame_calls,          \* last of: begin_frame returned a buffer / end_frame called
    frame_steps,          \* last of: begin_frame acquired an image / end_frame returned Ok
    cycle                 \* progress of a recreate, begin, render pass, end sequence

rvars == << window_extent, swapchain, is_frame_started, current_frame_index,
            current_image_index, next_handle, live_khr, signaled, semaphores,
            pending, cpu, aborted, last, calls, frame_calls, frame_steps,
            cycle >>

\* ---- state of the other components (each has a specification of its own)
VARIABLES
    cmp_self,             \* Swapchain::compare_swap_formats: self
    cmp_other,            \* Swapchain::compare_swap_formats: other_swapchain
    cmp_result,           \* << result of self vs other, of other vs self >>
    game_objects,         \* FrameInfo.game_objects, in iteration order
    ubo,                  \* the GlobalUbo handed to PointLightSystem::update
    light_pc,             \* "idle", "updated" or "aborted"
    buf_inputs,           \* sizes of the data the buffer call sites receive
    buffers,              \* per call site: the Buffer created and written
    buf_aborted           \* "none" or the panic message

cvars == << cmp_self, cmp_other, cmp_result >>

lvars == << game_objects, ubo, light_pc >>

bvars == << buf_inputs, buffers, buf_aborted >>

\* ---- the Application that owns the renderer, and the entity identifiers
VARIABLES
    dropped,              \* number of Application fields dropped so far
    destroyed,            \* objects destroyed by the last destruction, in order
    device,               \* "alive", or "destroyed" once Drop for Device ran
    CURRENT_ID,           \* static mut CURRENT_ID: u8
    created,              \* ids of the entities created, in creation order
    id_map,               \* the id-keyed mapping: id -> creation number
    id_aborted            \* "none" or the panic message

tvars == << dropped, destroyed, device >>

\* ---- functions of the surface capabilities, called on their own
VARIABLES
    input,                \* the arguments of the call
    output                \* NotCalled, or what the call produced

fvars == << input, output >>

\* ---- DescriptorSetLayoutBuilder
VARIABLES
    builder               \* the builder, the last call on it, and what build
                          \* handed to the device and returned

dvars == << builder >>

\* ---- PipelineCache and pipeline_cache.bin
VARIABLES
    file,                 \* what is at the path pipeline_cache.bin
    cache                 \* the process: its PipelineCache and the last call

pvars == << file, cache >>

\* ---- Model::new: the copies from the staging buffers
VARIABLES
    upload                \* the mesh, the buffer being filled, the calls of
                          \* copy_buffer so far, the GPU and the staging buffer

uvars == << upload >>

\* ---- EGuiIntegration: the per-image collections of the overlay
VARIABLES
    egui                  \* the framebuffers, the lengths of the per-image
                          \* vectors and what the last paint drew into

evars == << egui >>

\* ---- the event loop of main
VARIABLES
    callback              \* where the event-loop callback in progress stands

avars == << callback >>

ivars == << CURRENT_ID, created, id_map, id_aborted >>

\* Renderer::create_command_buffers: one primary buffer per frame slot
command_buffers == [i \in Slots |-> i + 1]

\* (variant: the buffer is picked by the image last acquired)
command_buffer_by_image(frame_index) ==
    command_buffers[current_image_index % MAX_FRAMES_IN_FLIGHT]

\* self.command_buffers[self.current_frame_index]
current_command_buffer(frame_index) == command_buffers[frame_index]

Ret(op, result, value) == [op |-> op, result |-> result, value |-> value]

\* the fields of Application in declaration order, the order they drop in
ApplicationFields ==
    << "window", "pipeline_cache", "egui_integration", "simple_render_system",
       "point_light_system", "renderer", "game_objects", "viewer_object",
       "camera_controller", "global_pool", "global_set_layout",
       "global_descriptor_sets", "ubo_buffers", "a" >>

\* the fields of the Application not dropped yet
fields == SubSeq(ApplicationFields, dropped + 1, Len(ApplicationFields))

\* the Application is alive: none of its fields has been dropped
Running == dropped = 0

Ready == cpu = "ready" /\ aborted = "none" /\ Running

Panic(op, msg) ==
    /\ aborted' = msg
    /\ last' = Ret(op, "abort", 0)
    /\ cycle' = "off"

\* ------------------------------------------------- Renderer::recreate_swapchain
\* (variant: only a window with neither width nor height counts as minimised)
is_zero_extent_both(extent) == extent[1] = 0 /\ extent[2] = 0

\* the minimised-window test
is_zero_extent(extent) == extent[1] = 0 \/ extent[2] = 0

\* surfaces whose formats differ from the ones the application started on:
\* one with another image format, one with another depth format
ChangedSurfaces(we) ==
    LET some == CHOOSE s \in InitialSurfaces(we) : TRUE
    IN  { [some EXCEPT !.formats = <<"R8G8B8A8_UNORM">>],
          [some EXCEPT !.depth = {"D32_SFLOAT_S8_UINT"}] }

\* rin: what the device answers during one recreation (nothing is asked of it
\* when the window is minimised)
RecreateInputs(we) ==
    LET some == CHOOSE s \in InitialSurfaces(we) : TRUE
    IN  IF is_zero_extent(we)
        THEN { [wait_idle |-> "Ok", create |-> "Ok", surface |-> some] }
        ELSE { [wait_idle |-> "Err", create |-> "Ok", surface |-> some] }
               \cup { [wait_idle |-> "Ok", create |-> c, surface |-> some] :
                        c \in {"create_swapchain", "create_sync_objects"} }
               \cup { [wait_idle |-> "Ok", create |-> "Ok", surface |-> s] :
                        s \in InitialSurfaces(we) \cup ChangedSurfaces(we) }

\* Outcome of recreate_swapchain on swapchain sc, window extent we, with the
\* driver handing out handle h: result, the swapchain stored afterwards, the
\* swapchain handles created and destroyed, the fences created and destroyed,
\* the device calls made.
recreate_outcome(sc, we, h, rin) ==
    IF is_zero_extent(we)
    THEN [result |-> "Ok", swapchain |-> sc, created |-> {}, destroyed |-> {},
          fences_new |-> {}, fences_gone |-> {}, calls |-> <<>>]
    ELSE IF rin.wait_idle = "Err"
    THEN [result |-> "Err", swapchain |-> sc, created |-> {}, destroyed |-> {},
          fences_new |-> {}, fences_gone |-> {},
          calls |-> << <<"device_wait_idle", 0, "Err">> >>]
    ELSE
      LET taken == [sc EXCEPT !.swapchain_khr = NullHandle]
          old == sc.swapchain_khr
          new_swapchain == Swapchain_new(h, we, rin.surface)
          c_idle == << <<"device_wait_idle", 0, "Ok">> >>
          c_new == c_idle \o << <<"create_swapchain", old, "Ok">> >>
      IN  IF rin.create = "create_swapchain"
          THEN [result |-> "Err", swapchain |-> taken, created |-> {},
                destroyed |-> {}, fences_new |-> {}, fences_gone |-> {},
                calls |-> c_idle \o << <<"create_swapchain", old, "Err">> >>]
          ELSE IF rin.create = "create_sync_objects"
          THEN [result |-> "Err", swapchain |-> taken, created |-> {h},
                destroyed |-> {}, fences_new |-> {}, fences_gone |-> {},
                calls |-> c_new \o << <<"create_fence", 0, "Err">> >>]
          ELSE IF compare_swap_formats(taken, new_swapchain) = "Ok"
          THEN [result |-> "Ok", swapchain |-> new_swapchain, created |-> {h},
                destroyed |-> dropped_khr(taken),
                fences_new |-> initially_signaled(new_swapchain),
                fences_gone |-> FencesOf(taken),
                calls |-> c_new]
          ELSE [result |-> "CompareSwapFormatsError", swapchain |-> taken,
                created |-> {h}, destroyed |-> dropped_khr(new_swapchain),
                fences_new |-> {}, fences_gone |-> {},
                calls |-> c_new \o << <<"destroy_swapchain", h, "Ok">> >>]

\* (variant: device_wait_idle returns without waiting for the queue)
device_idle_at_once(queue) == TRUE

\* device_wait_idle returns Ok once every submitted batch has finished
device_idle(queue) == queue = <<>>

\* device_wait_idle returns Ok only once the queue has drained; a new
\* swapchain needs a handle from the driver.
RecreateEnabled(out) ==
    /\ (out.calls # <<>> /\ out.calls[1][3] = "Ok") => device_idle(pending)
    /\ out.created # {} => next_handle <= MaxSwapchains

ApplyRecreate(out) ==
    /\ swapchain' = out.swapchain
    /\ next_handle' = next_handle + Cardinality(out.created)
    /\ live_khr' = (live_khr \cup out.created) \ out.destroyed
    /\ signaled' = (signaled \ out.fences_gone) \cup out.fences_new
    /\ semaphores' = IF out.fences_gone = {} THEN semaphores
                     ELSE track(semaphores, SemaphoresOf(swapchain), {})

recreate_swapchain ==
    /\ Ready
    /\ \E rin \in RecreateInputs(window_extent) :
         LET out == recreate_outcome(swapchain, window_extent,
                                     next_handle, rin)
         IN  /\ RecreateEnabled(out)
             /\ ApplyRecreate(out)
             /\ last' = Ret("recreate_swapchain", out.result, 0)
             /\ calls' = out.calls
             /\ cycle' = IF /\ out.result = "Ok"
                            /\ out.calls # <<>>
                            /\ ~is_frame_started
                         THEN "recreated" ELSE "off"
    /\ UNCHANGED << window_extent, is_frame_started, current_frame_index,
                    current_image_index, pending, cpu, aborted,
                    frame_calls, frame_steps >>
    /\ UNCHANGED << cvars, lvars, bvars, tvars, ivars,
                    fvars, dvars, pvars, uvars >>

\* ------------------------------------------------ Swapchain::acquire_next_image
\* (variant: the wait is on the other frame slot's fence)
acquire_fence_other_slot(sc) ==
    sc.in_flight_fences[(sc.current_frame + 1) % MAX_FRAMES_IN_FLIGHT]

\* the fence acquire_next_image blocks on before asking for an image
acquire_fence(sc) == sc.in_flight_fences[sc.current_frame]

\* the semaphore acquire_next_image has the presentation engine signal
acquire_semaphore(sc) == sc.image_available_semaphores[sc.current_frame]

\* what vkAcquireNextImageKHR can answer for swapchain sc
AcquireResults(sc) ==
    [result : {"Ok", "Suboptimal"}, image : 0 .. (sc.image_count - 1)]
        \cup [result : {"OutOfDate", "Error"}, image : {0}]

\* --------------------------------------------------- Renderer::begin_frame
\* (variant: begin_frame without its assertion)
begin_frame_unasserted(started) == TRUE

begin_frame_assert(started) == ~started

\* (variant: a sub-optimal acquire recreates the swapchain like an out-of-date
\* one)
suboptimal_recreates(result) ==
    IF result \in {"OutOfDate", "Suboptimal"} THEN "recreate"
    ELSE IF result = "Ok" THEN "frame"
    ELSE "panic"

\* the arm of `match result` taken for what acquire_next_image answered
match_result(result) ==
    IF result = "OutOfDate" THEN "recreate"
    ELSE IF result \in {"Ok", "Suboptimal"} THEN "frame"
    ELSE "panic"

\* (variant: the out-of-date acquire is reported to the caller as an error)
out_of_date_is_error(r) == IF r = "Ok" THEN "Err" ELSE r

\* what begin_frame returns after the recreation it triggered returned r
out_of_date_result(r) == IF r = "Ok" THEN "OkNone" ELSE r

BeginFrameInputs ==
    { <<"Err", [result |-> "Ok", image |-> 0], "Ok">> }
      \cup { <<"Ok", acq, "Ok">> : acq \in AcquireResults(swapchain) }
      \cup { <<"Ok", acq, "Err">> :
               acq \in { a \in AcquireResults(swapchain) :
                           a.result \in {"Ok", "Suboptimal"} } }

begin_frame ==
    /\ Ready
    /\ IF ~begin_frame_assert(is_frame_started)
       THEN /\ Panic("begin_frame",
                     "Can't call begin_frame while already in progress")
            /\ calls' = <<>>
            /\ UNCHANGED << swapchain, is_frame_started, current_image_index,
                            next_handle, live_khr, signaled, semaphores,
                            frame_calls, frame_steps >>
       ELSE \E in \in BeginFrameInputs :
            LET wait == in[1]
                acq == in[2]
                begin_cb == in[3]
                fence == acquire_fence(swapchain)
                c_wait == << <<"wait_for_fences", fence, wait>> >>
                c_acq == c_wait \o << <<"acquire_next_image",
                                        swapchain.current_frame, acq.result>> >>
                c_image == c_acq \o << <<"image_index", acq.image, "Ok">> >>
                command_buffer == current_command_buffer(current_frame_index)
            IN  IF wait = "Err"
                THEN /\ last' = Ret("begin_frame", "Err", 0)
                     /\ calls' = c_wait
                     /\ cycle' = "off"
                     /\ UNCHANGED << swapchain, is_frame_started,
                                     current_image_index, next_handle,
                                     live_khr, signaled, semaphores, aborted,
                                     frame_calls, frame_steps >>
                ELSE
                /\ fence \in signaled
                /\ IF swapchain.swapchain_khr = NullHandle
                   THEN /\ Panic("begin_frame",
                                 "called Option::unwrap() on a None value")
                        /\ calls' = c_wait
                        /\ UNCHANGED << swapchain, is_frame_started,
                                        current_image_index, next_handle,
                                        live_khr, signaled, semaphores,
                                        frame_calls, frame_steps >>
                   ELSE IF match_result(acq.result) = "recreate"
                   THEN \E rin \in RecreateInputs(window_extent) :
                        LET out == recreate_outcome(swapchain, window_extent,
                                                    next_handle, rin)
                        IN  /\ RecreateEnabled(out)
                            /\ ApplyRecreate(out)
                            /\ last' = Ret("begin_frame",
                                           out_of_date_result(out.result), 0)
                            /\ calls' = c_acq \o out.calls \o
                                 << <<"recreate_swapchain", 0, out.result>> >>
                            /\ cycle' = "off"
                            /\ UNCHANGED << is_frame_started,
                                            current_image_index, aborted,
                                            frame_calls, frame_steps >>
                   ELSE IF match_result(acq.result) = "panic"
                   THEN /\ Panic("begin_frame", "Unable to handle this error")
                        /\ calls' = c_acq
                        /\ UNCHANGED << swapchain, is_frame_started,
                                        current_image_index, next_handle,
                                        live_khr, signaled, semaphores,
                                        frame_calls, frame_steps >>
                   ELSE /\ is_frame_started' = TRUE
                        /\ current_image_index' = acq.image
                        /\ frame_steps' = "begin"
                        /\ calls' = c_image \o << <<"begin_command_buffer",
                                                  command_buffer, begin_cb>> >>
                        /\ IF begin_cb = "Ok"
                           THEN /\ last' = Ret("begin_frame", "OkSome",
                                               command_buffer)
                                /\ frame_calls' = "begin"
                                /\ cycle' = IF cycle = "recreated"
                                            THEN "begun" ELSE "off"
                           ELSE /\ last' = Ret("begin_frame", "Err", 0)
                                /\ cycle' = "off"
                                /\ UNCHANGED frame_calls
                        /\ semaphores' = track(semaphores, {},
                                                {acquire_semaphore(swapchain)})
                        /\ UNCHANGED << swapchain, next_handle, live_khr,
                                        signaled, aborted >>
    /\ UNCHANGED << window_extent, current_frame_index, pending, cpu >>
    /\ UNCHANGED << cvars, lvars, bvars, tvars, ivars,
                    fvars, dvars, pvars, uvars >>

\* ------------------------------------------- Swapchain::submit_command_buffers
SubmitFailures ==
    {"none", "wait_for_fences", "reset_fences", "queue_submit", "queue_present"}

\* (variant: the image's previous fence is never waited on)
image_never_waited(prev) == FALSE

\* self.images_in_flight[image_index] != ash::vk::Fence::null()
image_in_flight(prev) == prev # NullHandle

\* Outcome of submit_command_buffers on swapchain sc: result, the swapchain
\* afterwards, the fences reset, the batches queued, the semaphores whose
\* signal the submit and the present wait on, the semaphores left with a
\* signal nothing waits on, the device calls made. A present that fails
\* (out of date) still performs its semaphore wait.
submit_command_buffers(sc, buffer, image_index, fail) ==
    IF image_index \notin DOMAIN sc.images_in_flight
    THEN [result |-> "panic", swapchain |-> sc, reset |-> {},
          submitted |-> <<>>, sem_waited |-> {}, sem_left |-> {},
          calls |-> <<>>]
    ELSE
      LET prev == sc.images_in_flight[image_index]
          fence == sc.in_flight_fences[sc.current_frame]
          wait_semaphore == sc.image_available_semaphores[sc.current_frame]
          signal_semaphore == sc.render_finished_semaphores[sc.current_frame]
          batch == [fence |-> fence, image |-> image_index, buffer |-> buffer]
          c_wait == IF image_in_flight(prev)
                    THEN << <<"wait_for_fences", prev, "Ok">> >> ELSE <<>>
          c_reset == c_wait \o << <<"reset_fences", fence, "Ok">> >>
          c_submit == c_reset \o << <<"queue_submit", fence, "Ok">> >>
          c_present == c_submit \o << <<"queue_present", image_index, "Ok">> >>
          sc1 == [sc EXCEPT !.images_in_flight[image_index] = fence]
          sc2 == [sc1 EXCEPT !.current_frame =
                                (sc.current_frame + 1) % MAX_FRAMES_IN_FLIGHT]
      IN  IF image_in_flight(prev) /\ fail = "wait_for_fences"
          THEN [result |-> "Err", swapchain |-> sc, reset |-> {},
                submitted |-> <<>>, sem_waited |-> {}, sem_left |-> {},
                calls |-> << <<"wait_for_fences", prev, "Err">> >>]
          ELSE IF fail = "reset_fences"
          THEN [result |-> "Err", swapchain |-> sc1, reset |-> {},
                submitted |-> <<>>, sem_waited |-> {}, sem_left |-> {},
                calls |-> c_wait \o << <<"reset_fences", fence, "Err">> >>]
          ELSE IF fail = "queue_submit"
          THEN [result |-> "Err", swapchain |-> sc1, reset |-> {fence},
                submitted |-> <<>>, sem_waited |-> {}, sem_left |-> {},
                calls |-> c_reset \o << <<"queue_submit", fence, "Err">> >>]
          ELSE IF sc.swapchain_khr = NullHandle
          THEN [result |-> "panic", swapchain |-> sc1, reset |-> {fence},
                submitted |-> <<batch>>, sem_waited |-> {wait_semaphore},
                sem_left |-> {signal_semaphore}, calls |-> c_submit]
          ELSE IF fail = "queue_present"
          THEN [result |-> "Err", swapchain |-> sc2, reset |-> {fence},
                submitted |-> <<batch>>,
                sem_waited |-> {wait_semaphore, signal_semaphore},
                sem_left |-> {},
                calls |-> c_submit \o
                          << <<"queue_present", image_index, "Err">> >>]
          ELSE [result |-> "Ok", swapchain |-> sc2, reset |-> {fence},
                submitted |-> <<batch>>,
                sem_waited |-> {wait_semaphore, signal_semaphore},
                sem_left |-> {}, calls |-> c_present]

\* the per-image fence wait returns Ok only once that fence has signaled
SubmitEnabled(out) ==
    \A i \in 1 .. Len(out.calls) :
        (out.calls[i][1] = "wait_for_fences" /\ out.calls[i][3] = "Ok")
            => out.calls[i][2] \in signaled

\* ------------------------------------------------------ Renderer::end_frame
end_frame_assert(started) == started

\* end_frame up to and including submit + present; on success the thread
\* then blocks in device_wait_idle (end_frame_idle).
end_frame ==
    /\ Ready
    /\ IF ~end_frame_assert(is_frame_started)
       THEN /\ Panic("end_frame",
                     "Can't call end_frame while frame is not in progress")
            /\ calls' = <<>>
            /\ UNCHANGED << swapchain, signaled, semaphores, pending, cpu, frame_calls >>
       ELSE \E end_cb \in {"Ok", "Err"}, fail \in SubmitFailures :
            LET command_buffer == current_command_buffer(current_frame_index)
                c_end == << <<"end_command_buffer", command_buffer, end_cb>> >>
                out == submit_command_buffers(swapchain, command_buffer,
                                              current_image_index, fail)
            IN  /\ end_cb = "Err" => fail = "none"
                /\ frame_calls' = "end"
                /\ IF end_cb = "Err"
                   THEN /\ last' = Ret("end_frame", "Err", 0)
                        /\ calls' = c_end
                        /\ cycle' = "off"
                        /\ UNCHANGED << swapchain, signaled, semaphores, pending, cpu,
                                        aborted >>
                   ELSE /\ SubmitEnabled(out)
                        /\ swapchain' = out.swapchain
                        /\ signaled' = signaled \ out.reset
                        /\ semaphores' = track(semaphores, out.sem_waited,
                                                out.sem_left)
                        /\ pending' = pending \o out.submitted
                        /\ calls' = c_end \o out.calls
                        /\ IF out.result = "panic"
                           THEN /\ Panic("end_frame",
                                     IF swapchain.swapchain_khr = NullHandle
                                     THEN "called Option::unwrap() on a None value"
                                     ELSE "index out of bounds")
                                /\ UNCHANGED cpu
                           ELSE IF out.result = "Err"
                           THEN /\ last' = Ret("end_frame", "Err", 0)
                                /\ cycle' = "off"
                                /\ UNCHANGED << cpu, aborted >>
                           ELSE /\ last' = Ret("end_frame", "blocked", 0)
                                /\ cpu' = "end_frame_wait_idle"
                                /\ cycle' = IF cycle = "pass_ended"
                                            THEN "submitted" ELSE "off"
                                /\ UNCHANGED aborted
    /\ UNCHANGED << window_extent, is_frame_started, current_frame_index,
                    current_image_index, next_handle, live_khr, frame_steps >>
    /\ UNCHANGED << cvars, lvars, bvars, tvars, ivars,
                    fvars, dvars, pvars, uvars >>

\* (variant: the slot follows the acquired image instead of advancing by one)
next_frame_index_by_image(i) ==
    (i + 1 + current_image_index) % MAX_FRAMES_IN_FLIGHT

\* the frame slot end_frame moves to
next_frame_index(i) == (i + 1) % MAX_FRAMES_IN_FLIGHT

\* end_frame from the return of device_wait_idle to its own return
end_frame_idle ==
    /\ cpu = "end_frame_wait_idle"
    /\ aborted = "none"
    /\ \E idle \in {"Ok", "Err"} :
         /\ calls' = Append(calls, <<"device_wait_idle", 0, idle>>)
         /\ cpu' = "ready"
         /\ IF idle = "Ok"
            THEN /\ device_idle(pending)
                 /\ is_frame_started' = FALSE
                 /\ current_frame_index' = next_frame_index(current_frame_index)
                 /\ last' = Ret("end_frame", "Ok", 0)
                 /\ frame_steps' = "end"
                 /\ cycle' = IF cycle = "submitted" THEN "done" ELSE "off"
            ELSE /\ last' = Ret("end_frame", "Err", 0)
                 /\ cycle' = "off"
                 /\ UNCHANGED << is_frame_started, current_frame_index,
                                 frame_steps >>
    /\ UNCHANGED << window_extent, swapchain, current_image_index,
                    next_handle, live_khr, signaled, semaphores, pending, aborted,
                    frame_calls >>
    /\ UNCHANGED << cvars, lvars, bvars, tvars, ivars,
                    fvars, dvars, pvars, uvars >>

\* ----------------------------------------------------------------- the GPU
\* the graphics queue finishes its oldest batch and signals the batch's fence
gpu_complete ==
    /\ aborted = "none"
    /\ pending # <<>>
    /\ pending' = Tail(pending)
    /\ signaled' = signaled \cup {Head(pending).fence}
    /\ UNCHANGED << window_extent, swapchain, is_frame_started,
                    current_frame_index, current_image_index, next_handle,
                    live_khr, semaphores, cpu, aborted, last, calls,
                    frame_calls, frame_steps, cycle >>
    /\ UNCHANGED << cvars, lvars, bvars, tvars, ivars,
                    fvars, dvars, pvars, uvars >>

\* the user resizes or minimises the window between two callbacks
resize_window ==
    /\ Ready
    /\ \E e \in Extents : e # window_extent /\ window_extent' = e
    /\ last' = Ret("resize_window", "Ok", 0)
    /\ calls' = <<>>
    /\ UNCHANGED << swapchain, is_frame_started, current_frame_index,
                    current_image_index, next_handle, live_khr, signaled, semaphores,
                    pending, cpu, aborted, frame_calls, frame_steps, cycle >>
    /\ UNCHANGED << cvars, lvars, bvars, tvars, ivars,
                    fvars, dvars, pvars, uvars >>

\* --------------------------------------------------- frame-scoped accessors
FrameScopedUnchanged ==
    UNCHANGED << window_extent, swapchain, is_frame_started,
                 current_frame_index, current_image_index, next_handle,
                 live_khr, signaled, semaphores, pending, cpu, frame_calls, frame_steps >>

get_frame_index ==
    /\ Ready
    /\ calls' = <<>>
    /\ IF ~is_frame_started
       THEN Panic("get_frame_index",
                  "Cannot get frame index when frame is not in progress")
       ELSE /\ last' = Ret("get_frame_index", "Value", current_frame_index)
            /\ UNCHANGED << aborted, cycle >>
    /\ FrameScopedUnchanged
    /\ UNCHANGED << cvars, lvars, bvars, tvars, ivars,
                    fvars, dvars, pvars, uvars >>

get_image_index ==
    /\ Ready
    /\ calls' = <<>>
    /\ last' = Ret("get_image_index", "Value", current_image_index)
    /\ UNCHANGED << aborted, cycle >>
    /\ FrameScopedUnchanged
    /\ UNCHANGED << cvars, lvars, bvars, tvars, ivars,
                    fvars, dvars, pvars, uvars >>

get_current_command_buffer ==
    /\ Ready
    /\ calls' = <<>>
    /\ IF ~is_frame_started
       THEN Panic("get_current_command_buffer",
                  "Cannot get command buffer when frame not in progress")
       ELSE /\ last' = Ret("get_current_command_buffer", "Value",
                           current_command_buffer(current_frame_index))
            /\ UNCHANGED << aborted, cycle >>
    /\ FrameScopedUnchanged
    /\ UNCHANGED << cvars, lvars, bvars, tvars, ivars,
                    fvars, dvars, pvars, uvars >>

\* swapchain.swapchain_framebuffers has one entry per swapchain image
framebuffer_exists(sc, image_index) ==
    image_index \in 0 .. (sc.image_count - 1)

\* (variant: the command buffer passed in is not compared)
any_command_buffer(command_buffer, current) == TRUE

\* assert_eq!(command_buffer, self.get_current_command_buffer(), ..)
same_command_buffer(command_buffer, current) == command_buffer = current

\* the command buffers a caller can pass in
CommandBuffers == {command_buffers[i] : i \in Slots}

begin_swapchain_render_pass_on(command_buffer) ==
    /\ Ready
    /\   IF ~is_frame_started
         THEN /\ Panic("begin_swapchain_render_pass",
                       "Can't call begin_swpachain_render_pass while frame is not in progress")
              /\ calls' = <<>>
         ELSE IF ~same_command_buffer(command_buffer,
                                      current_command_buffer(current_frame_index))
         THEN /\ Panic("begin_swapchain_render_pass",
                       "Can't begin render pass on a command buffer from a different frame")
              /\ calls' = <<>>
         ELSE IF ~framebuffer_exists(swapchain, current_image_index)
         THEN /\ Panic("begin_swapchain_render_pass", "index out of bounds")
              /\ calls' = <<>>
         ELSE /\ last' = Ret("begin_swapchain_render_pass", "Ok", 0)
              /\ calls' = << <<"cmd_begin_render_pass", command_buffer, "Ok">>,
                             <<"cmd_set_viewport", command_buffer, "Ok">>,
                             <<"cmd_set_scissor", command_buffer, "Ok">> >>
              /\ cycle' = IF cycle = "begun" THEN "in_pass" ELSE "off"
              /\ UNCHANGED aborted
    /\ FrameScopedUnchanged
    /\ UNCHANGED << cvars, lvars, bvars, tvars, ivars,
                    fvars, dvars, pvars, uvars >>

begin_swapchain_render_pass ==
    \E command_buffer \in CommandBuffers :
        begin_swapchain_render_pass_on(command_buffer)

end_swapchain_render_pass_on(command_buffer) ==
    /\ Ready
    /\   IF ~is_frame_started
         THEN /\ Panic("end_swapchain_render_pass",
                       "Can't call end_swpachain_render_pass while frame is not in progress")
              /\ calls' = <<>>
         ELSE IF ~same_command_buffer(command_buffer,
                                      current_command_buffer(current_frame_index))
         THEN /\ Panic("end_swapchain_render_pass",
                       "Can't end render pass on a command buffer from a different frame")
              /\ calls' = <<>>
         ELSE /\ last' = Ret("end_swapchain_render_pass", "Ok", 0)
              /\ calls' = << <<"cmd_end_render_pass", command_buffer, "Ok">> >>
              /\ cycle' = IF cycle = "in_pass" THEN "pass_ended" ELSE "off"
              /\ UNCHANGED aborted
    /\ FrameScopedUnchanged
    /\ UNCHANGED << cvars, lvars, bvars, tvars, ivars,
                    fvars, dvars, pvars, uvars >>

end_swapchain_render_pass ==
    \E command_buffer \in CommandBuffers :
        end_swapchain_render_pass_on(command_buffer)

\* ------------------------------------------ Swapchain::compare_swap_formats
\* image formats choose_surface_format can return (the preferred one, or the
\* first the surface lists), and the candidates of find_depth_format
ImageFormats ==
    {"B8G8R8A8_SRGB", "B8G8R8A8_UNORM", "R8G8B8A8_SRGB", "R8G8B8A8_UNORM"}

DepthFormats == {"D32_SFLOAT", "D32_SFLOAT_S8_UINT"}

\* the two fields of a Swapchain that compare_swap_formats reads
FormatPairs ==
    [swapchain_image_format : ImageFormats,
     swapchain_depth_format : DepthFormats]

CompareOff ==
    /\ cmp_self = [swapchain_image_format |-> "B8G8R8A8_SRGB",
                   swapchain_depth_format |-> "D32_SFLOAT"]
    /\ cmp_other = cmp_self
    /\ cmp_result = <<"none", "none">>

CompareInit ==
    /\ cmp_self \in FormatPairs
    /\ cmp_other \in FormatPairs
    /\ cmp_result = <<"none", "none">>

\* self.compare_swap_formats(&other) and other.compare_swap_formats(&self)
compare_formats ==
    /\ cmp_result = <<"none", "none">>
    /\ cmp_result' = << compare_swap_formats(cmp_self, cmp_other),
                        compare_swap_formats(cmp_other, cmp_self) >>
    /\ UNCHANGED << cmp_self, cmp_other >>
    /\ UNCHANGED << rvars, lvars, bvars, tvars, ivars,
                    avars, fvars, dvars, pvars, uvars,
                    evars >>

\* ------------------------------------------------ PointLightSystem::update
\* The entity with id k: a point light (GameObject::make_point_light) or not.
\* Translation, colour and intensity are distinct per entity.
GameObject(k, light) ==
    [id |-> k,
     point_light |-> IF light THEN "Some" ELSE "None",
     light_intensity |-> IF light THEN 100 + k ELSE 0,
     translation |-> 200 + k,
     color |-> 300 + k]

\* the entity mappings of up to MaxObjects entities, each in one of the orders
\* the HashMap can iterate in
Scenes ==
    UNION { { [i \in 1 .. n |-> GameObject(i - 1, kinds[i])] :
                kinds \in [1 .. n -> BOOLEAN] } : n \in 0 .. MaxObjects }

\* PointLight { position: Default::default(), color: Default::default() }
DefaultPointLight == [position |-> <<0, 0>>, color |-> <<0, 0>>]

\* the GlobalUbo Application::run builds before calling update
FreshUbo ==
    [num_lights |-> 0,
     point_lights |-> [k \in 0 .. (MAX_LIGHTS - 1) |-> DefaultPointLight]]

\* the slot update writes for a light entity
LightSlot(obj) ==
    [position |-> <<obj.translation, 1>>,
     color |-> <<obj.color, obj.light_intensity>>]

\* the capacity assertion at the head of the loop body
light_capacity_assert(light_index) == light_index < MAX_LIGHTS

\* the loop of update from the i-th iterated entity on
RECURSIVE update_loop(_, _, _, _)
update_loop(objs, i, light_index, point_lights) ==
    IF i > Len(objs)
    THEN [aborted |-> FALSE, light_index |-> light_index,
          point_lights |-> point_lights]
    ELSE IF ~light_capacity_assert(light_index)
    THEN [aborted |-> TRUE, light_index |-> light_index,
          point_lights |-> point_lights]
    ELSE IF objs[i].point_light = "Some"
    THEN update_loop(objs, i + 1, light_index + 1,
                     [point_lights EXCEPT ![light_index] = LightSlot(objs[i])])
    ELSE update_loop(objs, i + 1, light_index, point_lights)

LightsOff ==
    /\ game_objects = <<>>
    /\ ubo = FreshUbo
    /\ light_pc = "idle"

LightsInit ==
    /\ game_objects \in Scenes
    /\ ubo = FreshUbo
    /\ light_pc = "idle"

update ==
    /\ light_pc = "idle"
    /\ LET out == update_loop(game_objects, 1, 0, ubo.point_lights)
       IN  IF out.aborted
           THEN /\ light_pc' = "aborted"
                /\ ubo' = [ubo EXCEPT !.point_lights = out.point_lights]
           ELSE /\ light_pc' = "updated"
                /\ ubo' = [num_lights |-> out.light_index,
                           point_lights |-> out.point_lights]
    /\ UNCHANGED game_objects
    /\ UNCHANGED << rvars, cvars, bvars, tvars, ivars,
                    avars, fvars, dvars, pvars, uvars,
                    evars >>

\* --------------------------------------------- callers of write_to_buffer
\* Buffer::new(device, instance_count, ..): room for instance_count elements
Buffer_new(instance_count) ==
    [created |-> TRUE, capacity |-> instance_count, mapped |-> FALSE,
     written |-> 0]

NoBuffer == [created |-> FALSE, capacity |-> 0, mapped |-> FALSE, written |-> 0]

\* Buffer::map(0): the whole buffer
Buffer_map(buffer) == [buffer EXCEPT !.mapped = TRUE]

\* Buffer::write_to_buffer(data) with data of len elements
write_to_buffer(buffer, len) == [buffer EXCEPT !.written = len]

\* the buffers written through write_to_buffer
VertexStaging == <<"staging_buffer (vertices)", 0>>

IndexStaging == <<"staging_buffer (indices)", 0>>

FontStaging == <<"font_image_staging_buffer", 0>>

UboBuffer(i) == <<"ubo_buffers", i>>

BufferSites ==
    {VertexStaging, IndexStaging, FontStaging}
        \cup { UboBuffer(i) : i \in Slots }

\* Model::create_vertex_buffers accepts the mesh
vertex_count_assert(vertex_count) == vertex_count >= 3

\* element count of the vertex / index staging buffers
vertex_staging_count(vertex_count) == vertex_count

index_staging_count(index_count) == index_count

\* element count of each per-frame uniform buffer, and of the slice &[ubo]
ubo_buffer_count == 1

ubo_write_len == 1

\* (variant: one byte per font pixel)
font_staging_count_per_pixel(width, height) == width * height

\* byte count of the font staging buffer: (dimensions.0 * dimensions.1 * 4)
font_staging_count(width, height) == width * height * 4

\* length of data: every pixel r becomes [r, r, r, r]
font_data_len(pixels) == pixels * 4

\* egui::FontImage: pixels holds width * height coverage values
font_pixels(width, height) == width * height

BufferInputs ==
    [vertex_count : 0 .. MaxVertices, index_count : 0 .. MaxIndices,
     width : 0 .. MaxFontDim, height : 0 .. MaxFontDim]

\* EGuiIntegration::new creates the font staging buffer with one element
InitialBuffers ==
    [site \in BufferSites |->
        IF site = FontStaging THEN Buffer_new(1) ELSE NoBuffer]

BuffersOff ==
    /\ buf_inputs = [vertex_count |-> 0, index_count |-> 0,
                     width |-> 0, height |-> 0]
    /\ buffers = InitialBuffers
    /\ buf_aborted = "none"

BuffersInit ==
    /\ buf_inputs \in BufferInputs
    /\ buffers = InitialBuffers
    /\ buf_aborted = "none"

\* Application::new: one mapped uniform buffer per frame slot
create_ubo_buffers ==
    /\ buf_aborted = "none"
    /\ \A i \in Slots : ~buffers[UboBuffer(i)].created
    /\ buffers' = [site \in BufferSites |->
                      IF site \in { UboBuffer(i) : i \in Slots }
                      THEN Buffer_map(Buffer_new(ubo_buffer_count))
                      ELSE buffers[site]]
    /\ UNCHANGED << buf_inputs, buf_aborted >>
    /\ UNCHANGED << rvars, cvars, lvars, tvars, ivars,
                    avars, fvars, dvars, pvars, uvars,
                    evars >>

\* Application::run: self.ubo_buffers[frame_index].write_to_buffer(&[ubo])
write_ubo ==
    /\ buf_aborted = "none"
    /\ \E frame_index \in Slots :
         /\ buffers[UboBuffer(frame_index)].created
         /\ buffers[UboBuffer(frame_index)].written = 0
         /\ buffers' = [buffers EXCEPT ![UboBuffer(frame_index)] =
                           write_to_buffer(@, ubo_write_len)]
    /\ UNCHANGED << buf_inputs, buf_aborted >>
    /\ UNCHANGED << rvars, cvars, lvars, tvars, ivars,
                    avars, fvars, dvars, pvars, uvars,
                    evars >>

create_vertex_buffers ==
    /\ buf_aborted = "none"
    /\ ~buffers[VertexStaging].created
    /\ LET vertex_count == buf_inputs.vertex_count
       IN  IF ~vertex_count_assert(vertex_count)
           THEN /\ buf_aborted' = "Vertex count must be at least 3"
                /\ UNCHANGED buffers
           ELSE /\ buffers' = [buffers EXCEPT ![VertexStaging] =
                      write_to_buffer(
                          Buffer_map(Buffer_new(
                              vertex_staging_count(vertex_count))),
                          vertex_count)]
                /\ UNCHANGED buf_aborted
    /\ UNCHANGED buf_inputs
    /\ UNCHANGED << rvars, cvars, lvars, tvars, ivars,
                    avars, fvars, dvars, pvars, uvars,
                    evars >>

\* Model::new calls it after create_vertex_buffers when indices are given
create_index_buffers ==
    /\ buf_aborted = "none"
    /\ buffers[VertexStaging].created
    /\ ~buffers[IndexStaging].created
    /\ LET index_count == buf_inputs.index_count
       IN  buffers' = [buffers EXCEPT ![IndexStaging] =
               write_to_buffer(
                   Buffer_map(Buffer_new(index_staging_count(index_count))),
                   index_count)]
    /\ UNCHANGED << buf_inputs, buf_aborted >>
    /\ UNCHANGED << rvars, cvars, lvars, tvars, ivars,
                    avars, fvars, dvars, pvars, uvars,
                    evars >>

\* the font image changed version: a new staging buffer replaces the old one
upload_font_texture ==
    /\ buf_aborted = "none"
    /\ buffers[FontStaging].written = 0
    /\ LET width == buf_inputs.width
           height == buf_inputs.height
           data == font_data_len(font_pixels(width, height))
       IN  buffers' = [buffers EXCEPT ![FontStaging] =
               write_to_buffer(
                   Buffer_map(Buffer_new(font_staging_count(width, height))),
                   data)]
    /\ UNCHANGED << buf_inputs, buf_aborted >>
    /\ UNCHANGED << rvars, cvars, lvars, tvars, ivars,
                    avars, fvars, dvars, pvars, uvars,
                    evars >>

\* ------------------------------------------------- Drop for Application
\* the fields that own an Rc<Device>, directly or through what they own
DeviceHolders ==
    { "pipeline_cache", "egui_integration", "simple_render_system",
      "point_light_system", "renderer", "game_objects", "global_pool",
      "global_set_layout", "ubo_buffers" }

\* the kinds of GPU object each field created from the device (the swapchain
\* handles of the renderer are tracked in live_khr)
CreatedBy(field) ==
    IF field = "pipeline_cache" THEN {"pipeline cache"}
    ELSE IF field = "egui_integration"
    THEN {"font image", "framebuffers", "render pass", "sampler",
          "pipeline layout", "pipeline", "shader modules", "descriptor pool",
          "descriptor set layouts", "buffers"}
    ELSE IF field \in {"simple_render_system", "point_light_system"}
    THEN {"pipeline layout", "pipeline", "shader modules"}
    ELSE IF field = "renderer" THEN {"command buffers", "swapchain resources"}
    ELSE IF field = "game_objects" THEN {"model buffers"}
    ELSE IF field = "global_pool" THEN {"descriptor pool", "descriptor sets"}
    ELSE IF field = "global_set_layout" THEN {"descriptor set layout"}
    ELSE IF field = "ubo_buffers" THEN {"buffers"}
    ELSE {}

AllHandles ==
    UNION { { <<f, k>> : k \in CreatedBy(f) } : f \in DeviceHolders }

\* what the destructors of a field release: every object the field created
released_by(field, live) == { h \in live : h[1] = field }

\* Rc<Device>: the device is dropped with its last holder
device_after(state, remaining_holders) ==
    IF remaining_holders = {} THEN "destroyed" ELSE state

\* the components still holding an Rc<Device>
holders == DeviceHolders \ { ApplicationFields[i] : i \in 1 .. dropped }

\* the GPU objects created from the device and not released yet
handles ==
    AllHandles \ UNION { released_by(ApplicationFields[i], AllHandles) :
                           i \in 1 .. dropped }

\* one object of the given kind per element of a vector of n elements
PerElement(kind, n) == [i \in 1 .. n |-> <<kind, i - 1>>]

One(kind) == << <<kind, 0>> >>

\* Drop for Pipeline, then its fields: the two shader modules
Drop_Pipeline == One("pipeline") \o PerElement("shader_module", 2)

\* Drop for Swapchain: the objects destroyed, in the order of the calls
Drop_Swapchain(sc) ==
    PerElement("swapchain_image_view", sc.image_count)
      \o (IF sc.swapchain_khr # NullHandle THEN One("swapchain") ELSE <<>>)
      \o PerElement("depth_image_view", sc.image_count)
      \o PerElement("depth_image", sc.image_count)
      \o PerElement("depth_image_memory", sc.image_count)
      \o PerElement("framebuffer", sc.image_count)
      \o One("render_pass")
      \o PerElement("render_finished_semaphore", MAX_FRAMES_IN_FLIGHT)
      \o PerElement("image_available_semaphore", MAX_FRAMES_IN_FLIGHT)
      \o PerElement("in_flight_fence", MAX_FRAMES_IN_FLIGHT)

\* Drop for Renderer, then its fields: the swapchain
Drop_Renderer(sc) == One("command_buffers") \o Drop_Swapchain(sc)

\* Drop for SimpleRenderSystem / PointLightSystem, then their fields: the
\* pipeline
Drop_RenderSystem == One("pipeline_layout") \o Drop_Pipeline

\* Drop for EGuiIntegration with n framebuffers, then its fields
Drop_EGuiIntegration(n) ==
    One("font_image_view") \o One("font_image") \o One("font_image_memory")
      \o PerElement("image_view", n)
      \o PerElement("framebuffer", n)
      \o One("render_pass") \o One("sampler") \o One("pipeline_layout")
      \o One("descriptor_pool") \o One("descriptor_set_layout")
      \o Drop_Pipeline

\* the numbers of images a swapchain can have; the egui integration holds one
\* framebuffer per image of the swapchain it was last built for
ImageCounts == { image_count(caps) : caps \in ImageCaps }

\* what the drop of an Application field destroys, the egui integration
\* holding n framebuffers
Drop_Field(field, n) ==
    IF field = "egui_integration" THEN Drop_EGuiIntegration(n)
    ELSE IF field \in {"simple_render_system", "point_light_system"}
    THEN Drop_RenderSystem
    ELSE IF field = "renderer" THEN Drop_Renderer(swapchain)
    ELSE IF field = "pipeline_cache" THEN One("pipeline_cache")
    ELSE IF field = "global_pool" THEN One("descriptor_pool")
    ELSE IF field = "global_set_layout" THEN One("descriptor_set_layout")
    ELSE <<>>

TeardownOff ==
    /\ dropped = 0
    /\ destroyed = <<>>
    /\ device = "alive"

\* EGuiIntegration::create_framebuffers: one image view and one framebuffer
\* per image of the swapchain handed in
create_framebuffers(sc) ==
    [i \in 0 .. (sc.image_count - 1) |->
        [swapchain |-> sc.swapchain_khr, image |-> i, live |-> TRUE]]

\* destroy_image_view / destroy_framebuffer on every element; the vectors
\* keep the handles
destroy_framebuffers(framebuffers) ==
    [i \in DOMAIN framebuffers |-> [framebuffers[i] EXCEPT !.live = FALSE]]

\* paint has not begun a render pass
NotPainted == [begun |-> FALSE]

\* cmd_begin_render_pass on framebuffer
Painted(framebuffer) == [begun |-> TRUE, framebuffer |-> framebuffer]

\* EGuiIntegration::new: descriptor_set_layouts, vertex_buffers and
\* index_buffers get one element per swapchain image, font_descriptor_sets
\* is empty
EGuiIntegration_new(sc) ==
    [framebuffers |-> create_framebuffers(sc),
     vertex_buffers |-> sc.image_count,
     index_buffers |-> sc.image_count,
     descriptor_set_layouts |-> sc.image_count,
     font_descriptor_sets |-> 0,
     painted |-> NotPainted,
     result |-> "none"]

\* the overlay of the Application, built from the Renderer's swapchain
OverlayInit == egui = EGuiIntegration_new(swapchain)

\* no overlay in use
OverlayOff ==
    egui = EGuiIntegration_new([image_count |-> 1,
                                swapchain_khr |-> NullHandle])

\* EGuiIntegration::upload_font_texture: when the font image has a new
\* version, one descriptor set per element of descriptor_set_layouts
rebuild_font_descriptor_sets(e, font_changed) ==
    IF font_changed
    THEN [e EXCEPT !.font_descriptor_sets = e.descriptor_set_layouts]
    ELSE e

\* EGuiIntegration::paint with the image index `index`: the font upload,
\* vertex_buffers[index], index_buffers[index], the render pass on
\* framebuffers[index] and, for a mesh with the font texture,
\* font_descriptor_sets[index]
paint(e, index, font_changed, font_meshes, fail) ==
    LET uploaded == rebuild_font_descriptor_sets(e, font_changed)
        Returns(result, from, painted) ==
            [result |-> result,
             egui |-> [from EXCEPT !.painted = painted, !.result = result]]
    IN  IF font_changed /\ fail = "upload_font_texture"
        THEN Returns("Err", e, NotPainted)
        ELSE IF \/ index >= uploaded.vertex_buffers
                \/ index >= uploaded.index_buffers
                \/ index \notin DOMAIN uploaded.framebuffers
        THEN Returns("panic", uploaded, NotPainted)
        ELSE IF font_meshes /\ index >= uploaded.font_descriptor_sets
        THEN Returns("panic", uploaded,
                     Painted(uploaded.framebuffers[index]))
        ELSE Returns("Ok", uploaded, Painted(uploaded.framebuffers[index]))

\* EGuiIntegration::update_swapchain: the objects destroyed, given what
\* create_render_pass and create_pipeline returned
update_swapchain_destroys(n, render_pass, pipeline) ==
    One("render_pass") \o PerElement("image_view", n)
      \o PerElement("framebuffer", n)
      \o (IF render_pass = "Ok" /\ pipeline = "Ok"
          THEN Drop_Pipeline ELSE <<>>)

update_swapchain ==
    /\ Ready
    /\ \E n \in ImageCounts, render_pass \in {"Ok", "Err"},
          pipeline \in {"Ok", "Err"} :
         LET ok == render_pass = "Ok" /\ pipeline = "Ok"
         IN  /\ destroyed' = update_swapchain_destroys(n, render_pass,
                                                       pipeline)
             /\ egui' = [egui EXCEPT !.framebuffers =
                            IF ok THEN create_framebuffers(swapchain)
                            ELSE destroy_framebuffers(egui.framebuffers)]
             /\ last' = Ret("update_swapchain",
                            IF ok THEN "Ok" ELSE "Err", 0)
    /\ calls' = <<>>
    /\ cycle' = "off"
    /\ UNCHANGED << window_extent, swapchain, is_frame_started,
                    current_frame_index, current_image_index, next_handle,
                    live_khr, signaled, semaphores, pending, cpu, aborted,
                    frame_calls, frame_steps >>
    /\ UNCHANGED << dropped, device >>
    /\ UNCHANGED << cvars, lvars, bvars, ivars, fvars, dvars, pvars, uvars >>

\* the Application goes out of scope: its next field is dropped
drop_field ==
    /\ cpu = "ready"
    /\ aborted = "none"
    /\ fields # <<>>
    /\ LET field == Head(fields)
       IN  /\ dropped' = dropped + 1
           /\ \E n \in ImageCounts : destroyed' = Drop_Field(field, n)
           /\ live_khr' = IF field = "renderer"
                          THEN live_khr \ dropped_khr(swapchain)
                          ELSE live_khr
           /\ device' = device_after(device, holders \ {field})
           /\ last' = Ret("drop", "Ok", Len(fields))
    /\ calls' = <<>>
    /\ cycle' = "off"
    /\ UNCHANGED << window_extent, swapchain, is_frame_started,
                    current_frame_index, current_image_index, next_handle,
                    signaled, semaphores, pending, cpu, aborted, frame_calls,
                    frame_steps >>
    /\ UNCHANGED << cvars, lvars, bvars, ivars, avars,
                    fvars, dvars, pvars, uvars,
                    evars >>

\* ----------------------------- Swapchain::create_swapchain: image count
\* no call has been made
NotCalled == [called |-> FALSE]

FunctionsOff ==
    /\ input = "none"
    /\ output = NotCalled

\* image counts a surface can report: small ones and those next to u32::MAX
CapCounts == (1 .. MaxCapCount) \cup {U32_MAX - 1, U32_MAX}

\* minImageCount is at least 1; maxImageCount is 0 (no limit) or at least
\* minImageCount
CapPairs ==
    { c \in [min_image_count : CapCounts,
             max_image_count : {0} \cup CapCounts] :
        c.max_image_count = 0 \/ c.max_image_count >= c.min_image_count }

\* let mut image_count = min_image_count + 1, clamped: overflow_checks is
\* what the build does on arithmetic overflow (panic, or wrap)
requested_image_count(caps, overflow_checks) ==
    IF overflow_checks /\ caps.min_image_count = U32_MAX
    THEN [called |-> TRUE, panic |-> "attempt to add with overflow",
          value |-> 0]
    ELSE [called |-> TRUE, panic |-> "none", value |-> image_count(caps)]

create_swapchain_image_count ==
    /\ ~output.called
    /\ \E overflow_checks \in BOOLEAN :
         output' = requested_image_count(input, overflow_checks)
    /\ UNCHANGED input
    /\ UNCHANGED << rvars, cvars, lvars, bvars, tvars,
                    ivars, avars, dvars, pvars, uvars,
                    evars >>

\* ------------------------------------------------ Swapchain::choose_extent
ExtentDims == 0 .. MaxExtentDim
ExtentPairs == ExtentDims \X ExtentDims

\* the surface leaves the extent to the swapchain
UndefinedExtent == << U32_MAX, U32_MAX >>

\* capabilities and window extents choose_extent is called with; the limits
\* are not assumed to be ordered
ExtentInputs ==
    [surface : [current_extent : {UndefinedExtent}
                                   \cup { << d, d >> : d \in ExtentDims },
                min_image_extent : ExtentPairs,
                max_image_extent : ExtentPairs],
     window_extent : ExtentPairs]

call_choose_extent ==
    /\ ~output.called
    /\ output' = [called |-> TRUE, panic |-> "none",
                  value |-> choose_extent(input.surface, input.window_extent)]
    /\ UNCHANGED input
    /\ UNCHANGED << rvars, cvars, lvars, bvars, tvars,
                    ivars, avars, dvars, pvars, uvars,
                    evars >>

\* ------------------------------------------- DescriptorSetLayoutBuilder
BindingIndices == 0 .. MaxBinding
\* descriptor type, stage flags and descriptor count of a declaration: those
\* the application and the GUI integration declare, and an array of two
BindingArguments ==
    { << "UNIFORM_BUFFER", "ALL_GRAPHICS", 1 >>,
      << "COMBINED_IMAGE_SAMPLER", "FRAGMENT", 1 >>,
      << "COMBINED_IMAGE_SAMPLER", "FRAGMENT", 2 >> }

NoBindings == [b \in {} |-> 0]

\* DescriptorSetLayout::new(device)
DescriptorSetLayout_new ==
    [pc |-> "building", bindings |-> NoBindings, call |-> [op |-> "new"],
     set_layout_bindings |-> << >>, layout |-> "none"]

LayoutOff == builder = DescriptorSetLayout_new

\* self.bindings.insert(binding, layout_binding)
insert(bindings, key, value) ==
    [b \in DOMAIN bindings \cup {key} |->
        IF b = key THEN value ELSE bindings[b]]

\* no key of the map is looked at
never_in_use(bindings, binding) == FALSE

\* self.bindings.keys().filter(|&b| *b == binding).count() != 0
in_use(bindings, binding) ==
    Cardinality({ b \in DOMAIN bindings : b = binding }) # 0

add_binding ==
    /\ builder.pc = "building"
    /\ \E binding \in BindingIndices, arguments \in BindingArguments :
         LET descriptor_type == arguments[1]
             stage_flags == arguments[2]
             descriptor_count == arguments[3]
             call == [op |-> "add_binding", binding |-> binding,
                      descriptor_type |-> descriptor_type,
                      stage_flags |-> stage_flags,
                      descriptor_count |-> descriptor_count]
             layout_binding ==
                [binding |-> binding, descriptor_type |-> descriptor_type,
                 descriptor_count |-> descriptor_count,
                 stage_flags |-> stage_flags]
         IN  IF in_use(builder.bindings, binding)
             THEN builder' = [builder EXCEPT !.pc = "aborted",
                                             !.call = call]
             ELSE builder' = [builder EXCEPT
                                !.bindings = insert(@, binding,
                                                    layout_binding),
                                !.call = call]
    /\ UNCHANGED << rvars, cvars, lvars, bvars, tvars,
                    ivars, avars, fvars, pvars, uvars,
                    evars >>

\* the orders in which a map's values can be iterated
ValueOrders(bindings) ==
    { [i \in 1 .. Cardinality(DOMAIN bindings) |-> bindings[keys[i]]] :
        keys \in { k \in [1 .. Cardinality(DOMAIN bindings)
                            -> DOMAIN bindings] :
                    \A i, j \in DOMAIN k : k[i] = k[j] => i = j } }

build ==
    /\ builder.pc = "building"
    /\ \E set_layout_bindings \in ValueOrders(builder.bindings),
          result \in {"Ok", "Err"} :
         builder' = [builder EXCEPT
                       !.pc = "built",
                       !.call = [op |-> "build", result |-> result],
                       !.set_layout_bindings = set_layout_bindings,
                       !.layout = IF result = "Ok"
                                  THEN [bindings |-> builder.bindings]
                                  ELSE "none"]
    /\ UNCHANGED << rvars, cvars, lvars, bvars, tvars,
                    ivars, avars, fvars, pvars, uvars,
                    evars >>

\* ---------------------------------------------------------- PipelineCache
\* the pipelines compiled through the cache
CachedPipelines == {"simple_render_system", "point_light_system", "egui"}

\* contents of a file or of a byte vector: nothing, bytes that are no cache
\* data, or the data of a cache holding some pipelines
NoBytes == [kind |-> "empty", entries |-> {}]
Garbage == [kind |-> "garbage", entries |-> {}]
CacheData(entries) == [kind |-> "data", entries |-> entries]
Bytes ==
    {NoBytes, Garbage} \cup { CacheData(e) : e \in SUBSET CachedPipelines }

\* the path holds nothing (and a file can be created there or not), or a
\* file that can be read or not and written or not
Files ==
    [kind : {"missing"}, creatable : BOOLEAN]
      \cup [kind : {"file"}, readable : BOOLEAN, writable : BOOLEAN,
            bytes : Bytes]

\* std::fs::read("pipeline_cache.bin")
fs_read(f) ==
    IF f.kind = "file" /\ f.readable
    THEN [result |-> "Ok", data |-> f.bytes]
    ELSE [result |-> "Err", data |-> NoBytes]

\* std::fs::write("pipeline_cache.bin", data): the result, and the path after
fs_write(f, data) ==
    IF f.kind = "file"
    THEN IF f.writable
         THEN [result |-> "Ok", file |-> [f EXCEPT !.bytes = data]]
         ELSE [result |-> "Err", file |-> f]
    ELSE IF f.creatable
         THEN [result |-> "Ok",
               file |-> [kind |-> "file", readable |-> TRUE,
                         writable |-> TRUE, bytes |-> data]]
         ELSE [result |-> "Err", file |-> f]

\* vkCreatePipelineCache: initial data the driver does not recognise leaves
\* the cache empty
initial_entries(data) == IF data.kind = "data" THEN data.entries ELSE {}

\* no drop of this or an earlier run has written the file
NothingWritten == [kind |-> "nothing", entries |-> {}]

Stopped(written) ==
    [pc |-> "stopped", initial_data |-> NoBytes, entries |-> {},
     call |-> [op |-> "none"], written |-> written]

PipelineCacheOff ==
    /\ file = [kind |-> "missing", creatable |-> TRUE]
    /\ cache = Stopped(NothingWritten)

PipelineCache_new ==
    /\ cache.pc = "stopped"
    /\ LET read == fs_read(file)
           data == IF read.result = "Ok" THEN read.data ELSE NoBytes
       IN  \E create_pipeline_cache \in {"Ok", "Err"} :
             cache' = [cache EXCEPT
                 !.pc = IF create_pipeline_cache = "Ok"
                        THEN "running" ELSE "failed",
                 !.initial_data = data,
                 !.entries = IF create_pipeline_cache = "Ok"
                             THEN initial_entries(data) ELSE {},
                 !.call = [op |-> "new", read |-> read.result,
                           create_pipeline_cache |-> create_pipeline_cache]]
    /\ UNCHANGED file

\* Pipeline::create_graphics_pipeline through the cache
create_graphics_pipelines ==
    /\ cache.pc = "running"
    /\ \E pipeline \in CachedPipelines :
         cache' = [cache EXCEPT
             !.entries = @ \cup {pipeline},
             !.call = [op |-> "create_graphics_pipelines"]]
    /\ UNCHANGED file

\* Drop for PipelineCache
drop_pipeline_cache ==
    /\ cache.pc = "running"
    /\ \E get_pipeline_cache_data \in {"Ok", "Err"} :
         LET data == CacheData(cache.entries)
             write == fs_write(file, data)
             call == [op |-> "drop",
                      get_pipeline_cache_data |-> get_pipeline_cache_data,
                      write |-> IF get_pipeline_cache_data = "Ok"
                                THEN write.result ELSE "none"]
         IN  IF get_pipeline_cache_data = "Err"
             THEN /\ cache' = [cache EXCEPT !.pc = "panicked",
                                            !.call = call]
                  /\ UNCHANGED file
             ELSE IF write.result = "Err"
             THEN /\ cache' = [cache EXCEPT !.pc = "panicked",
                                            !.call = call]
                  /\ file' = write.file
             ELSE /\ cache' = [Stopped(data) EXCEPT !.call = call]
                  /\ file' = write.file

\* the process is started again after it failed or panicked
restart ==
    /\ cache.pc \in {"failed", "panicked"}
    /\ cache' = Stopped(cache.written)
    /\ UNCHANGED file

\* ------------------------------------- Device::copy_buffer in Model::new
\* the device calls of copy_buffer, in the order of the code
CopySteps ==
    << "allocate_command_buffers", "begin_command_buffer", "cmd_copy_buffer",
       "end_command_buffer", "queue_submit", "queue_wait_idle",
       "free_command_buffers" >>

StepIndex(call) == CHOOSE i \in DOMAIN CopySteps : CopySteps[i] = call

\* the calls made when call is the one that fails
UpTo(call) == SubSeq(CopySteps, 1, StepIndex(call))

\* begin_single_time_commands().unwrap()
UnwrappedSteps == {"allocate_command_buffers", "begin_command_buffer"}

\* end_command_buffer(..)? and queue_submit(..)?
PropagatedSteps == {"end_command_buffer", "queue_submit"}

\* indices: None
NoIndices == 0 - 1

\* Model::new(device, vertices, indices) before its first statement
Model_new(vertex_count, indices) ==
    [vertex_count |-> vertex_count, indices |-> indices, site |-> "none",
     pc |-> "idle", result |-> "none", calls |-> << >>, size |-> 0,
     gpu |-> "idle", staging |-> "none"]

UploadOff == upload = Model_new(3, NoIndices)

\* size_of::<Vertex>(): three Vec3 and a Vec2 of f32; size_of::<u32>()
SizeOfVertex == 44
SizeOfIndex == 4

buffer_size(u, site) ==
    IF site = "vertices" THEN SizeOfVertex * u.vertex_count
    ELSE SizeOfIndex * u.indices

\* the staging buffer goes out of scope: Buffer's drop destroys it
Buffer_drop(u) == [u EXCEPT !.staging = "destroyed"]

\* create_vertex_buffers / create_index_buffers from the creation of the
\* staging buffer to the return of queue_submit
create_buffers(site) ==
    /\ \E failing \in {"none"} \cup UnwrappedSteps \cup PropagatedSteps :
         LET started == [upload EXCEPT !.site = site, !.result = "none",
                                       !.gpu = "idle", !.staging = "alive",
                                       !.size = buffer_size(upload, site)]
         IN  IF failing = "none"
             THEN upload' = [started EXCEPT !.pc = "waiting",
                                           !.calls = UpTo("queue_submit"),
                                           !.gpu = "executing"]
             ELSE IF failing \in UnwrappedSteps
             THEN upload' = Buffer_drop([started EXCEPT
                                !.pc = "panicked",
                                !.calls = UpTo(failing)])
             ELSE upload' = Buffer_drop([started EXCEPT
                                !.pc = "returned", !.result = "Err",
                                !.calls = UpTo(failing)])

create_vertex_buffers_copy ==
    /\ upload.pc = "idle"
    /\ create_buffers("vertices")

\* Model::new goes on to the indices when there are some
create_index_buffers_copy ==
    /\ upload.pc = "returned" /\ upload.result = "Ok"
    /\ upload.site = "vertices"
    /\ upload.indices # NoIndices
    /\ create_buffers("indices")

\* the GPU finishes the submitted copy
gpu_copy_complete ==
    /\ upload.gpu = "executing"
    /\ upload' = [upload EXCEPT !.gpu = "complete"]

\* queue_wait_idle returns: Ok once the queue is idle, then the command
\* buffer is freed and the creating function returns; or Err, which `?`
\* returns at once; either way the staging buffer goes out of scope
queue_wait_idle ==
    /\ upload.pc = "waiting"
    /\ \/ /\ upload.gpu = "complete"
          /\ upload' = Buffer_drop([upload EXCEPT
                           !.pc = "returned", !.result = "Ok",
                           !.calls = UpTo("free_command_buffers")])
       \/ upload' = Buffer_drop([upload EXCEPT
                        !.pc = "returned", !.result = "Err",
                        !.calls = UpTo("queue_wait_idle")])

\* ------------------------------------------------------ Model::from_file
\* usize::MAX; stands in as the largest integer the checker represents
USIZE_MAX == U32_MAX

\* a - b on usize in a build without overflow checks
usize_wrapping_sub(a, b) == IF a >= b THEN a - b ELSE USIZE_MAX - (b - a) + 1

\* a colour component: element at of mesh.vertex_color, or the default 1.0
Component(at) == [from |-> "vertex_color", at |-> at]
DefaultComponent == [from |-> "1.0", at |-> 0]

\* what the code subtracts from 3 * i for color_x, color_y and color_z
color_offsets == << 2, 1, 0 >>

\* the body of the loop for vertex i: the colour, or the panic
vertex_color(i, colors_len, overflow_checks) ==
    LET color_index == 3 * i + 2
        at == [c \in 1 .. 3 |-> usize_wrapping_sub(3 * i, color_offsets[c])]
    IN  IF ~(color_index < colors_len)
        THEN [panic |-> "none",
              color |-> << DefaultComponent, DefaultComponent,
                           DefaultComponent >>]
        ELSE IF overflow_checks /\ \E c \in 1 .. 3 : color_offsets[c] > 3 * i
        THEN [panic |-> "attempt to subtract with overflow", color |-> << >>]
        ELSE IF \E c \in 1 .. 3 : at[c] >= colors_len
        THEN [panic |-> "index out of bounds", color |-> << >>]
        ELSE [panic |-> "none",
              color |-> << Component(at[1]), Component(at[2]),
                           Component(at[3]) >>]

\* for i in 0..vertex_count: the colours pushed, until a panic
RECURSIVE from_file_loop(_, _, _, _, _)
from_file_loop(i, vertex_count, colors_len, overflow_checks, vertices) ==
    IF i >= vertex_count
    THEN [called |-> TRUE, panic |-> "none", value |-> vertices]
    ELSE LET v == vertex_color(i, colors_len, overflow_checks)
         IN  IF v.panic # "none"
             THEN [called |-> TRUE, panic |-> v.panic, value |-> vertices]
             ELSE from_file_loop(i + 1, vertex_count, colors_len,
                                 overflow_checks, Append(vertices, v.color))

\* meshes: positions for vertex_count vertices, colors_len colour components
MeshColors ==
    [vertex_count : 0 .. MaxVertices, colors_len : 0 .. (3 * MaxVertices)]

from_file ==
    /\ ~output.called
    /\ \E overflow_checks \in BOOLEAN :
         output' = from_file_loop(0, input.vertex_count, input.colors_len,
                                  overflow_checks, << >>)
    /\ UNCHANGED input
    /\ UNCHANGED << rvars, cvars, lvars, bvars, tvars, ivars, avars,
                    dvars, pvars, uvars,
                    evars >>

\* ------------------------------------------------- main: the event loop
\* between two callbacks of the event loop
Boundary == [pc |-> "boundary", command_buffer |-> NullHandle]

CallbackOff == callback = Boundary

\* inside a callback, at the statement pc, with the command buffer
\* begin_frame returned
At(pc, command_buffer) == [pc |-> pc, command_buffer |-> command_buffer]

\* the process has panicked
Fatal == At("fatal", NullHandle)

\* (variant: an error of run or resize is logged and the loop goes on)
log_and_continue(result, next) == IF result = "Ok" THEN next ELSE Boundary

\* app.run(..).unwrap() / app.resize().unwrap(): an Err returned through `?`
\* panics
unwrap(result, next) == IF result = "Ok" THEN next ELSE Fatal

\* where the callback stands after a renderer call: a panic inside the call
\* ends the process, an Err is returned to main
after_call(panicked, result, next) ==
    IF panicked # "none" THEN Fatal ELSE unwrap(result, next)

\* a step of the callback that calls nothing of the renderer
NoRendererCall ==
    /\ calls' = <<>>
    /\ cycle' = "off"
    /\ UNCHANGED << window_extent, swapchain, is_frame_started,
                    current_frame_index, current_image_index, next_handle,
                    live_khr, signaled, semaphores, pending, cpu, aborted,
                    frame_calls, frame_steps >>
    /\ UNCHANGED << cvars, lvars, bvars, tvars, ivars,
                    fvars, dvars, pvars, uvars >>

\* WindowEvent::Resized: the window has a new size; main calls app.resize()
\* when the size of the event differs from the size the window reports
main_resized ==
    /\ callback = Boundary
    /\ resize_window
    /\ \E differs \in BOOLEAN :
         callback' = IF differs THEN At("resize", NullHandle) ELSE Boundary

\* Application::resize: self.renderer.recreate_swapchain(&self.window)?
resize_recreate_swapchain ==
    /\ callback.pc = "resize"
    /\ recreate_swapchain
    /\ callback' = after_call(aborted', last'.result,
                              At("update_swapchain", NullHandle))

\* Application::resize: self.egui_integration.update_swapchain(..)?
resize_update_swapchain ==
    /\ callback.pc = "update_swapchain"
    /\ update_swapchain
    /\ callback' = after_call(aborted', last'.result, Boundary)

\* Application::run with a zero-area window: return Ok(())
run_minimised ==
    /\ callback = Boundary
    /\ Ready
    /\ is_zero_extent(window_extent)
    /\ last' = Ret("run", "Ok", 0)
    /\ UNCHANGED callback
    /\ NoRendererCall

\* Application::run: match self.renderer.begin_frame(&self.window)?
run_begin_frame ==
    /\ callback = Boundary
    /\ ~is_zero_extent(window_extent)
    /\ begin_frame
    /\ callback' = IF last'.result = "OkSome"
                   THEN At("get_frame_index", last'.value)
                   ELSE IF last'.result = "OkNone" THEN Boundary
                   ELSE after_call(aborted', last'.result, Boundary)

\* let frame_index = self.renderer.get_frame_index()
run_get_frame_index ==
    /\ callback.pc = "get_frame_index"
    /\ get_frame_index
    /\ callback' = IF aborted' # "none" THEN Fatal
                   ELSE At("update", callback.command_buffer)

\* point_light_system.update (which may panic), the write of the ubo and
\* self.ubo_buffers[frame_index].flush()?
run_update ==
    /\ callback.pc = "update"
    /\ Ready
    /\ \E outcome \in {"Ok", "Err", "abort"} :
         /\ last' = Ret("flush", outcome, 0)
         /\ callback' = IF outcome = "abort" THEN Fatal
                        ELSE unwrap(outcome, At("begin_render_pass",
                                                callback.command_buffer))
    /\ NoRendererCall

\* self.renderer.begin_swapchain_render_pass(command_buffer), then the two
\* render systems
run_begin_render_pass ==
    /\ callback.pc = "begin_render_pass"
    /\ begin_swapchain_render_pass_on(callback.command_buffer)
    /\ callback' = IF aborted' # "none" THEN Fatal
                   ELSE At("end_render_pass", callback.command_buffer)

\* self.renderer.end_swapchain_render_pass(command_buffer)
run_end_render_pass ==
    /\ callback.pc = "end_render_pass"
    /\ end_swapchain_render_pass_on(callback.command_buffer)
    /\ callback' = IF aborted' # "none" THEN Fatal
                   ELSE At("paint", callback.command_buffer)

\* self.egui_integration.paint(command_buffer,
\*     self.renderer.get_image_index(), clipped_meshes)?
run_paint ==
    /\ callback.pc = "paint"
    /\ get_image_index
    /\ IF aborted' # "none"
       THEN callback' = Fatal /\ UNCHANGED egui
       ELSE \E font_changed \in BOOLEAN, font_meshes \in BOOLEAN,
               fail \in {"none", "upload_font_texture"} :
            LET out == paint(egui, current_image_index, font_changed,
                             font_meshes, fail)
            IN  /\ egui.font_descriptor_sets = 0 => font_changed
                /\ egui' = out.egui
                /\ callback' =
                     IF out.result = "panic" THEN Fatal
                     ELSE unwrap(out.result,
                                 At("end_frame", callback.command_buffer))

\* self.renderer.end_frame()? up to its device_wait_idle
run_end_frame ==
    /\ callback.pc = "end_frame"
    /\ end_frame
    /\ callback' = IF last'.result = "blocked"
                   THEN At("device_wait_idle", callback.command_buffer)
                   ELSE after_call(aborted', last'.result, Boundary)

\* the rest of end_frame, and the return of run
run_end_frame_idle ==
    /\ callback.pc = "device_wait_idle"
    /\ end_frame_idle
    /\ callback' = after_call(aborted', last'.result, Boundary)

\* ------------------------------------------------------- GameObject::new
U8 == 256

\* CURRENT_ID += 1 on a u8: wraps when the build has no overflow checks
wrapping_add(id) == (id + 1) % U8

IdsOff ==
    /\ CURRENT_ID = 0
    /\ created = <<>>
    /\ id_map = <<>>
    /\ id_aborted = "none"

\* GameObject::new / GameObject::make_point_light, followed by the insert of
\* the entity into the id-keyed mapping; overflow_checks is what the build
\* does on arithmetic overflow (panic in a debug build, wrap in release)
create_game_object ==
    /\ id_aborted = "none"
    /\ Len(created) < MaxCreated
    /\ \E overflow_checks \in BOOLEAN :
         LET id == CURRENT_ID
         IN  IF overflow_checks /\ id + 1 >= U8
             THEN /\ id_aborted' = "attempt to add with overflow"
                  /\ UNCHANGED << CURRENT_ID, created, id_map >>
             ELSE /\ CURRENT_ID' = wrapping_add(id)
                  /\ created' = Append(created, id)
                  /\ id_map' = [k \in DOMAIN id_map \cup {id} |->
                                   IF k = id THEN Len(created) + 1
                                   ELSE id_map[k]]
                  /\ UNCHANGED id_aborted
    /\ UNCHANGED << rvars, cvars, lvars, bvars, tvars,
                    avars, fvars, dvars, pvars, uvars,
                    evars >>

\* ------------------------------------------------------------ Renderer::new
\* the window the application opens (800 x 600 in the source)
InitialExtent == <<800, 600>>

RendererInitial(tracked) ==
    /\ window_extent = InitialExtent
    /\ \E surface \in InitialSurfaces(InitialExtent) :
         /\ swapchain = Swapchain_new(1, InitialExtent, surface)
         /\ signaled = initially_signaled(swapchain)
    /\ is_frame_started = FALSE
    /\ current_frame_index = 0
    /\ current_image_index = 0
    /\ next_handle = 2
    /\ live_khr = {1}
    /\ semaphores = [tracked |-> tracked, pending |-> {}]
    /\ pending = <<>>
    /\ cpu = "ready"
    /\ aborted = "none"
    /\ last = Ret("new", "Ok", 0)
    /\ calls = <<>>
    /\ frame_calls = "none"
    /\ frame_steps = "none"
    /\ cycle = "off"

RendererInit == RendererInitial(FALSE)

RendererNext ==
    \/ begin_frame /\ UNCHANGED << avars, evars >>
    \/ end_frame /\ UNCHANGED << avars, evars >>
    \/ end_frame_idle /\ UNCHANGED << avars, evars >>
    \/ recreate_swapchain /\ UNCHANGED << avars, evars >>
    \/ get_frame_index /\ UNCHANGED << avars, evars >>
    \/ get_image_index /\ UNCHANGED << avars, evars >>
    \/ get_current_command_buffer /\ UNCHANGED << avars, evars >>
    \/ begin_swapchain_render_pass /\ UNCHANGED << avars, evars >>
    \/ end_swapchain_render_pass /\ UNCHANGED << avars, evars >>
    \/ gpu_complete /\ UNCHANGED << avars, evars >>
    \/ resize_window /\ UNCHANGED << avars, evars >>

vars ==
    << rvars, cvars, lvars, bvars, tvars, ivars, avars, fvars, dvars, pvars,
       uvars, evars >>

InitOfApplication ==
    RendererInit /\ CompareOff /\ LightsOff /\ BuffersOff /\ TeardownOff /\ IdsOff
    /\ CallbackOff /\ FunctionsOff /\ LayoutOff
    /\ PipelineCacheOff /\ UploadOff

Init == InitOfApplication /\ OverlayOff

Next == RendererNext

Spec == Init /\ [][Next]_vars

\* ---- the renderer with a GPU that finishes every batch submitted to it
InitFences == Init

NextFences == Next

SpecFences ==
    /\ InitFences
    /\ [][NextFences]_vars
    /\ WF_vars(gpu_complete /\ UNCHANGED << avars, evars >>)

\* ---- compare_swap_formats on every pair of format combinations
InitCompare ==
    CompareInit /\ RendererInit /\ LightsOff /\ BuffersOff /\ TeardownOff /\ IdsOff
    /\ CallbackOff /\ FunctionsOff /\ LayoutOff
    /\ PipelineCacheOff /\ UploadOff /\ OverlayOff

NextCompare == compare_formats

SpecCompare == InitCompare /\ [][NextCompare]_vars

\* ---- PointLightSystem::update on every entity mapping
InitLights ==
    LightsInit /\ RendererInit /\ CompareOff /\ BuffersOff /\ TeardownOff /\ IdsOff
    /\ CallbackOff /\ FunctionsOff /\ LayoutOff
    /\ PipelineCacheOff /\ UploadOff /\ OverlayOff

NextLights == update

SpecLights == InitLights /\ [][NextLights]_vars

\* ---- the buffers the program creates and writes
InitBuffers ==
    BuffersInit /\ RendererInit /\ CompareOff /\ LightsOff /\ TeardownOff /\ IdsOff
    /\ CallbackOff /\ FunctionsOff /\ LayoutOff
    /\ PipelineCacheOff /\ UploadOff /\ OverlayOff

NextBuffers ==
    \/ create_ubo_buffers
    \/ write_ubo
    \/ create_vertex_buffers
    \/ create_index_buffers
    \/ upload_font_texture

SpecBuffers == InitBuffers /\ [][NextBuffers]_vars

\* ---- the renderer with the semaphore signals tracked
InitSync ==
    /\ RendererInitial(TRUE)
    /\ CompareOff /\ LightsOff /\ BuffersOff /\ TeardownOff /\ IdsOff
    /\ CallbackOff /\ FunctionsOff /\ LayoutOff
    /\ PipelineCacheOff /\ UploadOff /\ OverlayOff

NextSync == RendererNext

SpecSync == InitSync /\ [][NextSync]_vars

\* ---- the life of the Application: resizes, recreations, then its drop
InitTeardown == InitOfApplication /\ OverlayInit

NextTeardown ==
    \/ recreate_swapchain /\ UNCHANGED << avars, evars >>
    \/ resize_window /\ UNCHANGED << avars, evars >>
    \/ update_swapchain /\ UNCHANGED avars
    \/ drop_field

SpecTeardown == InitTeardown /\ [][NextTeardown]_vars

\* ---- the event loop of main driving the Application
InitApp == InitOfApplication /\ OverlayInit

NextApp ==
    \/ main_resized /\ UNCHANGED evars
    \/ resize_recreate_swapchain /\ UNCHANGED evars
    \/ resize_update_swapchain
    \/ run_minimised /\ UNCHANGED evars
    \/ run_begin_frame /\ UNCHANGED evars
    \/ run_get_frame_index /\ UNCHANGED evars
    \/ run_update /\ UNCHANGED evars
    \/ run_begin_render_pass /\ UNCHANGED evars
    \/ run_end_render_pass /\ UNCHANGED evars
    \/ run_paint
    \/ run_end_frame /\ UNCHANGED evars
    \/ run_end_frame_idle /\ UNCHANGED evars
    \/ gpu_complete /\ UNCHANGED << avars, evars >>

\* a callback runs to its end and the GPU finishes the work submitted to it
SpecApp == InitApp /\ [][NextApp]_vars /\ WF_vars(NextApp)

\* ---- the image count requested for every pair of surface limits
InitImageCount ==
    /\ RendererInit /\ CompareOff /\ LightsOff /\ BuffersOff /\ TeardownOff
    /\ IdsOff /\ CallbackOff /\ LayoutOff /\ PipelineCacheOff
    /\ UploadOff /\ OverlayOff
    /\ input \in CapPairs
    /\ output = NotCalled

NextImageCount == create_swapchain_image_count

SpecImageCount == InitImageCount /\ [][NextImageCount]_vars

\* ---- the extent chosen for every surface and window
InitExtent ==
    /\ RendererInit /\ CompareOff /\ LightsOff /\ BuffersOff /\ TeardownOff
    /\ IdsOff /\ CallbackOff /\ LayoutOff /\ PipelineCacheOff
    /\ UploadOff /\ OverlayOff
    /\ input \in ExtentInputs
    /\ output = NotCalled

NextExtent == call_choose_extent

SpecExtent == InitExtent /\ [][NextExtent]_vars

\* ---- a descriptor set layout built from any sequence of declarations
InitLayout == Init

NextLayout == add_binding \/ build

SpecLayout == InitLayout /\ [][NextLayout]_vars

\* ---- the pipeline cache over several runs of the process
InitCache ==
    /\ RendererInit /\ CompareOff /\ LightsOff /\ BuffersOff /\ TeardownOff
    /\ IdsOff /\ CallbackOff /\ FunctionsOff /\ LayoutOff /\ UploadOff
    /\ OverlayOff
    /\ file \in Files
    /\ cache = Stopped(NothingWritten)

OtherThanCache ==
    << rvars, cvars, lvars, bvars, tvars, ivars, avars, fvars, dvars, uvars,
       evars >>

NextCache ==
    \/ PipelineCache_new /\ UNCHANGED OtherThanCache
    \/ create_graphics_pipelines /\ UNCHANGED OtherThanCache
    \/ drop_pipeline_cache /\ UNCHANGED OtherThanCache
    \/ restart /\ UNCHANGED OtherThanCache

SpecCache == InitCache /\ [][NextCache]_vars

\* ---- the uploads of one mesh
Meshes ==
    { Model_new(vertex_count, indices) :
        vertex_count \in 3 .. MaxVertices,
        indices \in {NoIndices} \cup (0 .. MaxIndices) }

InitUpload ==
    /\ RendererInit /\ CompareOff /\ LightsOff /\ BuffersOff /\ TeardownOff
    /\ IdsOff /\ CallbackOff /\ FunctionsOff /\ LayoutOff
    /\ PipelineCacheOff /\ OverlayOff
    /\ upload \in Meshes

OtherThanUpload ==
    << rvars, cvars, lvars, bvars, tvars, ivars, avars, fvars, dvars, pvars,
       evars >>

NextUpload ==
    \/ create_vertex_buffers_copy /\ UNCHANGED OtherThanUpload
    \/ create_index_buffers_copy /\ UNCHANGED OtherThanUpload
    \/ gpu_copy_complete /\ UNCHANGED OtherThanUpload
    \/ queue_wait_idle /\ UNCHANGED OtherThanUpload

SpecUpload == InitUpload /\ [][NextUpload]_vars

\* ---- the vertex colours of every mesh
InitFromFile ==
    /\ RendererInit /\ CompareOff /\ LightsOff /\ BuffersOff /\ TeardownOff
    /\ IdsOff /\ CallbackOff /\ LayoutOff /\ PipelineCacheOff
    /\ UploadOff /\ OverlayOff
    /\ input \in MeshColors
    /\ output = NotCalled

NextFromFile == from_file

SpecFromFile == InitFromFile /\ [][NextFromFile]_vars

\* ---- entity creation
InitIds == Init

NextIds == create_game_object

SpecIds == InitIds /\ [][NextIds]_vars

\* =================================================================== claims

\* an end_frame call returns Ok: the step out of its device_wait_idle
EndFrameCompletes ==
    /\ cpu = "end_frame_wait_idle"
    /\ cpu' = "ready"
    /\ last'.result = "Ok"

\* C1: the frame-slot index stays within [0, MAX_FRAMES_IN_FLIGHT); every
\* end_frame call that completes successfully moves it to (old + 1) mod
\* MAX_FRAMES_IN_FLIGHT whatever image was acquired, and no other step of
\* begin_frame / end_frame / recreate_swapchain (or any other operation)
\* changes it.
C1_FrameSlotIndex ==
    /\ [](current_frame_index \in 0 .. (MAX_FRAMES_IN_FLIGHT - 1))
    /\ [][ IF EndFrameCompletes
           THEN current_frame_index' =
                    (current_frame_index + 1) % MAX_FRAMES_IN_FLIGHT
           ELSE current_frame_index' = current_frame_index ]_vars

\* a second frame completed on slot 1 with image 0: slot and image differ
C1_Witness ==
    /\ last = Ret("end_frame", "Ok", 0)
    /\ frame_steps = "end"
    /\ current_frame_index = 0
    /\ current_image_index = 0
    /\ aborted = "none"

\* C2: begin_frame while a frame is in progress aborts on its assertion,
\* end_frame while no frame is in progress aborts on its assertion, and as
\* long as nothing aborts the begin_frame calls that return a command buffer
\* and the end_frame calls alternate one for one, begin_frame first: every
\* end_frame call follows a begin_frame that returned a buffer, and every such
\* begin_frame follows an end_frame call (or is the first).
C2_StrictAlternation ==
    [][ /\ (is_frame_started /\ begin_frame)
             => aborted' = "Can't call begin_frame while already in progress"
        /\ (~is_frame_started /\ end_frame)
             => aborted' = "Can't call end_frame while frame is not in progress"
        /\ (last'.result = "OkSome" /\ begin_frame) => frame_calls # "begin"
        /\ (last'.op = "end_frame" /\ aborted' = "none" /\ end_frame)
             => frame_calls = "begin" ]_vars

\* a call of one of the five frame-scoped operations
FrameScopedCall ==
    \/ get_frame_index
    \/ get_image_index
    \/ get_current_command_buffer
    \/ begin_swapchain_render_pass
    \/ end_swapchain_render_pass

\* C3: each frame-scoped operation (get_frame_index, get_image_index,
\* get_current_command_buffer, begin_swapchain_render_pass,
\* end_swapchain_render_pass) called while no frame is in progress aborts on
\* the frame-not-started assertion: it returns no value and records nothing.
C3_FrameScopedAssert ==
    [][ (~is_frame_started /\ FrameScopedCall)
          => /\ aborted' # "none"
             /\ last'.result = "abort"
             /\ calls' = <<>> ]_vars

\* C4: recreate_swapchain with a window of zero width or zero height returns
\* Ok, makes no device call, and leaves the stored swapchain (handle included),
\* the frame state, the live handles, the fences and the queue as they were;
\* a repeated call changes nothing at all.
C4_ZeroExtentNoOp ==
    [][ (/\ window_extent[1] = 0 \/ window_extent[2] = 0
         /\ last'.op = "recreate_swapchain"
         /\ recreate_swapchain)
          => /\ last' = Ret("recreate_swapchain", "Ok", 0)
             /\ calls' = <<>>
             /\ UNCHANGED << window_extent, swapchain, is_frame_started,
                             current_frame_index, current_image_index,
                             next_handle, live_khr, signaled, pending, cpu,
                             aborted, frame_calls, frame_steps >>
             /\ (last = Ret("recreate_swapchain", "Ok", 0) /\ calls = <<>>)
                  => UNCHANGED vars ]_vars

\* recreate_swapchain has just returned on a window of zero width only
C4_Witness ==
    /\ last = Ret("recreate_swapchain", "Ok", 0)
    /\ calls = <<>>
    /\ window_extent[1] = 0
    /\ window_extent[2] # 0
    /\ swapchain.swapchain_khr = 1
    /\ aborted = "none"

\* every device call in cs returned success (a suboptimal acquire is success)
AllOk(cs) == \A i \in 1 .. Len(cs) : cs[i][3] \in {"Ok", "Suboptimal"}

\* a frame of the sequence recreate, begin, render pass, end is being recorded
CycleRecording == cycle \in {"begun", "in_pass", "pass_ended"}

\* C5: after a recreate_swapchain that really recreated (non-zero extent,
\* formats unchanged) on an Idle renderer, on either frame slot, the sequence
\* begin_frame, begin_swapchain_render_pass, end_swapchain_render_pass,
\* end_frame goes through: at every stage the next call is not blocked by an
\* unsignaled fence, and whenever the device calls it makes succeed it neither
\* aborts (assertion, missing handle, index out of range) nor returns an error.
C5_RecreateThenFrame ==
    /\ [](cycle = "recreated"
            => /\ ~is_frame_started
               /\ aborted = "none"
               /\ swapchain.swapchain_khr # NullHandle
               /\ swapchain.swapchain_khr \in live_khr
               /\ acquire_fence(swapchain) \in signaled
               /\ pending = <<>>)
    /\ [](CycleRecording
            => /\ is_frame_started
               /\ aborted = "none"
               /\ swapchain.swapchain_khr # NullHandle
               /\ current_image_index \in DOMAIN swapchain.images_in_flight
               /\ framebuffer_exists(swapchain, current_image_index)
               /\ swapchain.images_in_flight[current_image_index] = NullHandle)
    /\ [](cycle = "submitted"
            => /\ cpu = "end_frame_wait_idle"
               /\ aborted = "none"
               /\ Len(pending) <= 1)
    /\ [][ /\ (cycle = "recreated" /\ begin_frame /\ AllOk(calls'))
                => /\ last' = Ret("begin_frame", "OkSome",
                                   command_buffers[current_frame_index])
                   /\ aborted' = "none"
                   /\ is_frame_started'
           /\ (cycle = "begun" /\ begin_swapchain_render_pass
                 /\ aborted' # "Can't begin render pass on a command buffer from a different frame")
                => /\ last' = Ret("begin_swapchain_render_pass", "Ok", 0)
                   /\ aborted' = "none"
                   /\ calls'[1][2] = command_buffers[current_frame_index]
           /\ (cycle = "in_pass" /\ end_swapchain_render_pass
                 /\ aborted' # "Can't end render pass on a command buffer from a different frame")
                => /\ last' = Ret("end_swapchain_render_pass", "Ok", 0)
                   /\ aborted' = "none"
           /\ (cycle = "pass_ended" /\ end_frame /\ AllOk(calls'))
                => /\ last'.result = "blocked"
                   /\ aborted' = "none"
                   /\ cpu' = "end_frame_wait_idle"
           /\ (cycle = "submitted" /\ end_frame_idle /\ AllOk(calls'))
                => /\ last' = Ret("end_frame", "Ok", 0)
                   /\ aborted' = "none"
                   /\ ~is_frame_started'
                   /\ pending' = <<>> ]_vars

\* the whole sequence has completed on frame slot 1, after an earlier frame
C5_Witness ==
    /\ cycle = "done"
    /\ last = Ret("end_frame", "Ok", 0)
    /\ current_frame_index = 0
    /\ swapchain.swapchain_khr = 2
    /\ ~is_frame_started
    /\ aborted = "none"

\* the device calls cs include an acquire that reported out-of-date
OutOfDateAcquire(cs) ==
    \E i \in 1 .. Len(cs) :
        cs[i][1] = "acquire_next_image" /\ cs[i][3] = "OutOfDate"

\* what the recreate_swapchain call nested in the device calls cs returned
RecreateReturned(cs) == cs[Len(cs)][3]

Recorded(cs, name) == \E i \in 1 .. Len(cs) : cs[i][1] = name

C8_CpuThrottled ==
    /\ [](Len(pending) <= MAX_FRAMES_IN_FLIGHT)
    /\ [](\A i \in 1 .. Len(pending) : pending[i].fence \notin signaled)
    /\ [][ (last'.op = "begin_frame" /\ Recorded(calls', "acquire_next_image")
              /\ begin_frame)
             => /\ calls'[1] = <<"wait_for_fences",
                                 swapchain.in_flight_fences[swapchain.current_frame],
                                 "Ok">>
                /\ calls'[2][1] = "acquire_next_image"
                /\ calls'[2][2] = swapchain.current_frame
                /\ swapchain.in_flight_fences[swapchain.current_frame]
                     \in signaled ]_vars

\* a begin_frame that follows a submission on every frame slot (the third
\* frame at the earliest) has waited on its slot's fence and acquired an image
C8_Witness ==
    /\ last.op = "begin_frame"
    /\ last.result = "OkSome"
    /\ is_frame_started
    /\ \A s \in Slots :
         \E i \in DOMAIN swapchain.images_in_flight :
             swapchain.images_in_flight[i] = swapchain.in_flight_fences[s]
    /\ calls[1] = <<"wait_for_fences", acquire_fence(swapchain), "Ok">>
    /\ aborted = "none"

\* C6: compare_swap_formats(a, b) returns Ok exactly when a and b have the
\* same image format and the same depth format, CompareSwapFormatsError as
\* soon as either differs, and the same result with a and b swapped.
C6_CompareSwapFormats ==
    cmp_result # <<"none", "none">>
      => /\ cmp_result[1] \in {"Ok", "CompareSwapFormatsError"}
         /\ cmp_result[1] = "Ok"
              <=> /\ cmp_self.swapchain_image_format
                       = cmp_other.swapchain_image_format
                  /\ cmp_self.swapchain_depth_format
                       = cmp_other.swapchain_depth_format
         /\ cmp_result[2] = cmp_result[1]

\* compared: same image format, different depth format, rejected both ways
C6_Witness ==
    /\ cmp_result = <<"CompareSwapFormatsError", "CompareSwapFormatsError">>
    /\ cmp_self.swapchain_image_format = cmp_other.swapchain_image_format
    /\ cmp_self.swapchain_depth_format # cmp_other.swapchain_depth_format

\* the point-light entities of a mapping
LightsOf(objs) == { i \in 1 .. Len(objs) : objs[i].point_light = "Some" }

\* C9: for every entity mapping with n <= MAX_LIGHTS point lights and any
\* number of other entities, update sets num_lights = n, fills exactly the
\* slots 0 .. n-1, one per light entity (position from its translation, colour
\* from its colour and intensity) and leaves the slots from n on untouched.
C9_UpdateFillsSlots ==
    LET n == Cardinality(LightsOf(game_objects))
    IN  (light_pc # "idle" /\ n <= MAX_LIGHTS)
          => /\ light_pc = "updated"
             /\ ubo.num_lights = n
             /\ { ubo.point_lights[k] : k \in 0 .. (n - 1) }
                  = { LightSlot(game_objects[i]) : i \in LightsOf(game_objects) }
             /\ \A k \in n .. (MAX_LIGHTS - 1) :
                    ubo.point_lights[k] = DefaultPointLight

\* C10: no write_to_buffer call writes more elements than the buffer was
\* created with: the vertex and index staging buffers hold exactly the
\* vertices and indices written, each uniform buffer holds the one GlobalUbo
\* written, and the font staging buffer holds the 4 bytes per pixel written.
C10_NoOverrun ==
    /\ \A site \in BufferSites : buffers[site].written <= buffers[site].capacity
    /\ \A site \in BufferSites :
           buffers[site].written > 0 => buffers[site].mapped
    /\ buffers[VertexStaging].created
         => /\ buffers[VertexStaging].capacity = buf_inputs.vertex_count
            /\ buffers[VertexStaging].written = buf_inputs.vertex_count
    /\ buffers[IndexStaging].created
         => /\ buffers[IndexStaging].capacity = buf_inputs.index_count
            /\ buffers[IndexStaging].written = buf_inputs.index_count
    /\ \A i \in Slots :
           buffers[UboBuffer(i)].created
             => /\ buffers[UboBuffer(i)].capacity = 1
                /\ buffers[UboBuffer(i)].written <= 1
    /\ buffers[FontStaging].written > 0
         => /\ buffers[FontStaging].capacity
                 = buf_inputs.width * buf_inputs.height * 4
            /\ buffers[FontStaging].written
                 = 4 * (buf_inputs.width * buf_inputs.height)

\* every call site has written: a mesh, a uniform block, a 2 x 2 font image
C10_Witness ==
    /\ buffers[VertexStaging].written >= 3
    /\ buffers[IndexStaging].written >= 3
    /\ \A i \in Slots : buffers[UboBuffer(i)].written = 1
    /\ buffers[FontStaging].written = 16
    /\ buf_aborted = "none"

\* a recreate_swapchain call that got as far as creating a new swapchain
RecreateCreated ==
    /\ last'.op = "recreate_swapchain"
    /\ recreate_swapchain
    /\ next_handle' = next_handle + 1
    /\ calls'[Len(calls')][1] # "create_fence"

\* C11: recreate_swapchain does not give up the old swapchain before the new
\* one has passed compare_swap_formats: when the new image or depth format
\* differs it returns CompareSwapFormatsError, the Renderer still stores the
\* old swapchain (handle, formats, fences and all) and the new, rejected
\* swapchain is the one destroyed; when the formats match the new swapchain
\* replaces the old one, whose destructor runs at the replacement.
C11_OldSwapchainKept ==
    [][ RecreateCreated
          => LET new_khr == next_handle
             IN  IF last'.result = "CompareSwapFormatsError"
                 THEN /\ swapchain' = swapchain
                      /\ new_khr \notin live_khr'
                      /\ calls'[Len(calls')] = <<"destroy_swapchain", new_khr, "Ok">>
                      /\ live_khr' = live_khr
                      /\ signaled' = signaled
                 ELSE /\ last'.result = "Ok"
                      /\ swapchain'.swapchain_khr = new_khr
                      /\ new_khr \in live_khr'
                      /\ swapchain'.swapchain_image_format
                           = swapchain.swapchain_image_format
                      /\ swapchain'.swapchain_depth_format
                           = swapchain.swapchain_depth_format ]_vars

\* C12: no dependent resource outlives the Device: once the logical device and
\* its command pool are destroyed, every field that held the device is gone
\* and every GPU object created from the device, the swapchain handles
\* included, has been released.
C12_NoDependentOutlivesDevice ==
    [](device = "destroyed"
         => /\ holders = {}
            /\ handles = {}
            /\ live_khr = {})

\* C13: every created entity gets an identifier greater than that of every
\* entity created before it, for any number of entities: creation never
\* aborts, the identifiers strictly increase in creation order, and the
\* id-keyed mapping holds one entry per created entity (no insert overwrote an
\* earlier one).
C13_UniqueIncreasingIds ==
    /\ id_aborted = "none"
    /\ \A i \in 1 .. (Len(created) - 1) : created[i] < created[i + 1]
    /\ Cardinality(DOMAIN id_map) = Len(created)

\* the device calls cs include an acquire that returned an image
AcquireSucceeded(cs) ==
    \E i \in 1 .. Len(cs) :
        cs[i][1] = "acquire_next_image" /\ cs[i][3] \in {"Ok", "Suboptimal"}

\* the image index the acquire in cs returned
AcquiredImage(cs) ==
    LET i == CHOOSE k \in 1 .. Len(cs) : cs[k][1] = "image_index"
    IN  cs[i][2]

\* the call in cs that begins command buffer recording
BeginRecording(cs) == cs[Len(cs)]

\* while a frame is in progress the accessors return the slot's buffer and
\* the slot, and the slot does not change before the frame is ended
FrameAccessorsStable ==
    /\ (is_frame_started /\ get_current_command_buffer)
          => last' = Ret("get_current_command_buffer", "Value",
                         command_buffers[current_frame_index])
    /\ (is_frame_started /\ get_frame_index)
          => last' = Ret("get_frame_index", "Value", current_frame_index)
    /\ (is_frame_started /\ is_frame_started')
          => current_frame_index' = current_frame_index

\* C14 (as stated): whenever the acquire succeeds, begin_frame moves the
\* renderer to FrameInProgress, stores the acquired image index, begins
\* recording into command_buffers[current_frame_index] and returns exactly
\* that command buffer; until the frame is ended get_current_command_buffer
\* and get_frame_index keep returning that buffer and slot.
C14_AcquireStartsFrame ==
    [][ /\ (last'.op = "begin_frame" /\ AcquireSucceeded(calls') /\ begin_frame)
            => /\ is_frame_started'
               /\ current_image_index' = AcquiredImage(calls')
               /\ BeginRecording(calls')[1] = "begin_command_buffer"
               /\ BeginRecording(calls')[2]
                    = command_buffers[current_frame_index]
               /\ last' = Ret("begin_frame", "OkSome",
                              command_buffers[current_frame_index])
        /\ FrameAccessorsStable ]_vars

\* C14 (amended): whenever the acquire succeeds, begin_frame stores the
\* acquired image index and asks the device to begin recording into
\* command_buffers[current_frame_index]; if that call succeeds the renderer is
\* FrameInProgress and begin_frame returns exactly that command buffer, and if
\* it fails begin_frame returns the error instead of a command buffer; while a
\* frame is in progress get_current_command_buffer and get_frame_index keep
\* returning that buffer and slot.
C14_RecordingStartsFrame ==
    [][ /\ (last'.op = "begin_frame" /\ AcquireSucceeded(calls') /\ begin_frame)
            => /\ current_image_index' = AcquiredImage(calls')
               /\ current_frame_index' = current_frame_index
               /\ aborted' = "none"
               /\ BeginRecording(calls')[1] = "begin_command_buffer"
               /\ BeginRecording(calls')[2]
                    = command_buffers[current_frame_index]
               /\ IF BeginRecording(calls')[3] = "Ok"
                  THEN /\ is_frame_started'
                       /\ last' = Ret("begin_frame", "OkSome",
                                      command_buffers[current_frame_index])
                  ELSE last' = Ret("begin_frame", "Err", 0)
        /\ FrameAccessorsStable ]_vars

\* a frame begun on slot 1 with image 0, and the accessor asked for its buffer
C14_Witness ==
    /\ last = Ret("get_current_command_buffer", "Value", command_buffers[1])
    /\ is_frame_started
    /\ frame_calls = "begin"
    /\ current_frame_index = 1
    /\ current_image_index = 0
    /\ aborted = "none"

\* the names of the device calls cs, in the order they were made
CallNames(cs) == [i \in 1 .. Len(cs) |-> cs[i][1]]

\* the device calls of a successful end_frame, without and with the wait on
\* the image's previous fence
EndFrameSteps ==
    { << "end_command_buffer", "reset_fences", "queue_submit",
         "queue_present", "device_wait_idle" >>,
      << "end_command_buffer", "wait_for_fences", "reset_fences",
         "queue_submit", "queue_present", "device_wait_idle" >> }

\* C15: a successful end_frame finishes the recording, submits to the
\* graphics queue, presents and waits for the device to be idle, in this
\* order, and only then sets the state to Idle and advances the frame-slot
\* index; whenever end_frame has returned successfully no submitted batch is
\* outstanding and every in-flight fence of the swapchain is signaled.
C15_EndFrameOrder ==
    /\ [](cpu = "end_frame_wait_idle"
            => /\ is_frame_started
               /\ CallNames(calls) \o <<"device_wait_idle">> \in EndFrameSteps)
    /\ [](last = Ret("end_frame", "Ok", 0)
            => /\ pending = <<>>
               /\ FencesOf(swapchain) \subseteq signaled
               /\ CallNames(calls) \in EndFrameSteps
               /\ AllOk(calls))
    /\ [][ EndFrameCompletes
             => /\ is_frame_started /\ ~is_frame_started'
                /\ current_frame_index'
                     = (current_frame_index + 1) % MAX_FRAMES_IN_FLIGHT
                /\ calls'[1] = <<"end_command_buffer",
                                 command_buffers[current_frame_index], "Ok">>
                /\ pending' = <<>> ]_vars

\* end_frame has returned Ok after waiting on the fence of a reused image
C15_Witness ==
    /\ last = Ret("end_frame", "Ok", 0)
    /\ CallNames(calls)[2] = "wait_for_fences"
    /\ ~is_frame_started
    /\ pending = <<>>
    /\ aborted = "none"

\* position of the first call named name in the device calls cs (0: none)
CallIndex(cs, name) ==
    IF Recorded(cs, name)
    THEN CHOOSE i \in 1 .. Len(cs) :
            /\ cs[i][1] = name
            /\ \A k \in 1 .. (i - 1) : cs[k][1] # name
    ELSE 0

\* the batches still unfinished that render to image i of swapchain sc
UnfinishedOn(sc, i) ==
    { k \in 1 .. Len(pending) :
        pending[k].image = i /\ pending[k].fence \in FencesOf(sc) }

\* C16: submit_command_buffers never submits work for swapchain image i while
\* an earlier submission that used image i is unfinished: if
\* images_in_flight[i] is non-null it first waits on that fence (the wait
\* returning once the fence is signaled), then associates image i with the
\* current slot's fence, resets that fence and submits with it, in that order;
\* if it is null it does not wait.
C16_ImageFenceWait ==
    [][ (last'.op = "end_frame" /\ Recorded(calls', "queue_submit")
           /\ end_frame)
          => LET i == current_image_index
                 prev == swapchain.images_in_flight[i]
                 fence == swapchain.in_flight_fences[swapchain.current_frame]
                 w == CallIndex(calls', "wait_for_fences")
                 r == CallIndex(calls', "reset_fences")
                 q == CallIndex(calls', "queue_submit")
             IN  /\ UnfinishedOn(swapchain, i) = {}
                 /\ IF prev # NullHandle
                    THEN /\ 0 < w /\ w < r
                         /\ calls'[w] = <<"wait_for_fences", prev, "Ok">>
                         /\ prev \in signaled
                    ELSE w = 0
                 /\ 0 < r /\ r < q
                 /\ calls'[r] = <<"reset_fences", fence, "Ok">>
                 /\ calls'[q][2] = fence
                 /\ swapchain'.images_in_flight[i] = fence ]_vars

\* a submit that first waited on the fence of the other frame slot, which the
\* image was last used with
C16_Witness ==
    /\ last = Ret("end_frame", "blocked", 0)
    /\ calls[2][1] = "wait_for_fences"
    /\ calls[3][1] = "reset_fences"
    /\ calls[2][2] # calls[3][2]
    /\ Recorded(calls, "queue_submit")
    /\ aborted = "none"

\* an end_frame step that called submit_command_buffers, which returned
SubmitReturned ==
    /\ last'.op = "end_frame"
    /\ end_frame
    /\ aborted' = "none"
    /\ Len(calls') >= 1
    /\ calls'[1][3] = "Ok"

\* C17: every call of submit_command_buffers advances the swapchain's frame
\* slot index by one modulo MAX_FRAMES_IN_FLIGHT whatever it returns, also
\* when the per-image fence wait, the fence reset, the queue submit or the
\* present fails.
C17_SlotAdvancesRegardless ==
    [][ SubmitReturned
          => swapchain'.current_frame
               = (swapchain.current_frame + 1) % MAX_FRAMES_IN_FLIGHT ]_vars

\* the device calls cs include a call named name that returned Ok
Succeeded(cs, name) ==
    \E i \in 1 .. Len(cs) : cs[i][1] = name /\ cs[i][3] = "Ok"

\* C18: the semaphores of one frame slot chain acquire, submit and present:
\* the acquire signals the slot's image-available semaphore, which has no
\* signal pending at that time; the submit waits on that semaphore, which the
\* acquire has signaled, and signals the slot's render-finished semaphore,
\* which has no signal pending; the present waits on the latter, so that
\* after the present no signal of the slot is left pending.
C18_SemaphoreChain ==
    [][ /\ (last'.op = "begin_frame" /\ AcquireSucceeded(calls')
              /\ begin_frame)
            => /\ acquire_semaphore(swapchain) \notin semaphores.pending
               /\ acquire_semaphore(swapchain) \in semaphores'.pending
        /\ (last'.op = "end_frame" /\ Succeeded(calls', "queue_submit")
              /\ end_frame)
            => LET slot == swapchain.current_frame
                   available == swapchain.image_available_semaphores[slot]
                   finished == swapchain.render_finished_semaphores[slot]
               IN  /\ available \in semaphores.pending
                   /\ finished \notin semaphores.pending
                   /\ available \notin semaphores'.pending
                   /\ Recorded(calls', "queue_present")
                        => finished \notin semaphores'.pending ]_vars

\* what acquire_next_image answered among the device calls cs
Acquired(cs, result) ==
    \E i \in 1 .. Len(cs) :
        cs[i][1] = "acquire_next_image" /\ cs[i][3] = result

\* the fence wait inside acquire_next_image failed
AcquireWaitFailed(cs) ==
    cs = << <<"wait_for_fences", acquire_fence(swapchain), "Err">> >>

\* C19: an acquisition error other than out-of-date is fatal: begin_frame
\* starts no frame, creates no swapchain and does not return Ok(None); an
\* error of vkAcquireNextImageKHR aborts with "Unable to handle this error",
\* an error of the fence wait before it is returned to the caller; nothing
\* runs after an abort. A sub-optimal acquire is a success: the same
\* swapchain is kept, nothing is created, the frame is started on the image
\* acquired and recording begins on the slot's command buffer.
C19_AcquireErrorFatal ==
    [][ /\ aborted = "none"
        /\ (last'.op = "begin_frame" /\ begin_frame
              /\ (Acquired(calls', "Error") \/ AcquireWaitFailed(calls')))
            => /\ is_frame_started' = FALSE
               /\ swapchain' = swapchain
               /\ next_handle' = next_handle
               /\ ~Recorded(calls', "create_swapchain")
               /\ ~Recorded(calls', "begin_command_buffer")
               /\ last'.result # "OkNone"
               /\ IF Acquired(calls', "Error")
                  THEN /\ aborted' = "Unable to handle this error"
                       /\ last' = Ret("begin_frame", "abort", 0)
                  ELSE /\ aborted' = "none"
                       /\ last' = Ret("begin_frame", "Err", 0)
        /\ (last'.op = "begin_frame" /\ begin_frame
              /\ Acquired(calls', "Suboptimal"))
            => /\ swapchain' = swapchain
               /\ next_handle' = next_handle
               /\ ~Recorded(calls', "create_swapchain")
               /\ ~Recorded(calls', "recreate_swapchain")
               /\ aborted' = "none"
               /\ is_frame_started' = TRUE
               /\ current_image_index' = AcquiredImage(calls')
               /\ BeginRecording(calls')[1] = "begin_command_buffer"
               /\ BeginRecording(calls')[2]
                    = command_buffers[current_frame_index]
               /\ BeginRecording(calls')[3] = "Ok"
                    => last' = Ret("begin_frame", "OkSome",
                                   command_buffers[current_frame_index]) ]_vars

\* a begin_frame aborted by an acquisition error, after an earlier frame was
\* begun and ended
C19_Witness ==
    /\ aborted = "Unable to handle this error"
    /\ last = Ret("begin_frame", "abort", 0)
    /\ Acquired(calls, "Error")
    /\ ~is_frame_started
    /\ frame_calls = "end"

\* the number of entries of a vector modelled as a function
Count(vec) == Cardinality(DOMAIN vec)

\* the sizes of the synchronisation vectors of swapchain sc, and where its
\* image-in-flight entries point
SyncObjectCounts(sc) ==
    /\ DOMAIN sc.images_in_flight = 0 .. (sc.image_count - 1)
    /\ Count(sc.images_in_flight) = sc.image_count
    /\ Count(sc.image_available_semaphores) = MAX_FRAMES_IN_FLIGHT
    /\ Count(sc.render_finished_semaphores) = MAX_FRAMES_IN_FLIGHT
    /\ Count(sc.in_flight_fences) = MAX_FRAMES_IN_FLIGHT
    /\ \A i \in DOMAIN sc.images_in_flight :
          sc.images_in_flight[i] # NullHandle
            => sc.images_in_flight[i] \in FencesOf(sc)

AllNull(sc) == \A i \in DOMAIN sc.images_in_flight :
                  sc.images_in_flight[i] = NullHandle

\* C20: in the swapchain the renderer holds, after every operation, there is
\* one image-in-flight entry per swapchain image, there are
\* MAX_FRAMES_IN_FLIGHT image-available semaphores, render-finished
\* semaphores and in-flight fences, and every image-in-flight entry that is
\* not null is one of that swapchain's in-flight fences; a swapchain that was
\* just created (the first one, or one stored by a recreation) has all its
\* image-in-flight entries null.
C20_SyncObjectCounts ==
    /\ AllNull(swapchain)
    /\ [](SyncObjectCounts(swapchain))
    /\ [][ swapchain'.in_flight_fences # swapchain.in_flight_fences
             => AllNull(swapchain') ]_vars

\* a recreated swapchain with a single image (fewer than frame slots) whose
\* image has been submitted with a fence of that swapchain
C20_Witness ==
    /\ swapchain.swapchain_khr = 2
    /\ swapchain.image_count = 1
    /\ swapchain.image_count # MAX_FRAMES_IN_FLIGHT
    /\ swapchain.images_in_flight[0] \in FencesOf(swapchain)
    /\ last.op = "end_frame"

\* the indices of the images of swapchain sc
ImageIndices(sc) == 0 .. (sc.image_count - 1)

\* C21: current_image_index is an index into the images of the swapchain
\* the renderer stores, in every state; get_image_index never returns, and
\* the framebuffer lookup of begin_swapchain_render_pass never uses, an index
\* outside of them.
C21_ImageIndexInRange ==
    /\ [](current_image_index \in ImageIndices(swapchain))
    /\ [][ /\ (last'.op = "get_image_index" /\ last'.result = "Value")
                => last'.value \in ImageIndices(swapchain')
           /\ last'.op = "begin_swapchain_render_pass"
                => aborted' # "index out of bounds" ]_vars

\* every device call in cs is recorded into command buffer cb
RecordedInto(cs, cb) == \A i \in 1 .. Len(cs) : cs[i][2] = cb

\* C22: while a frame is in progress begin_swapchain_render_pass and
\* end_swapchain_render_pass abort on their command buffer assertion whenever
\* the command buffer passed in is not the one of the current frame slot (the
\* one begin_frame returned), recording nothing; they pass that assertion
\* when it is; and every render pass command they record goes into the
\* current frame slot's command buffer.
C22_ForeignBufferAsserted ==
    [][ \A cb \in CommandBuffers :
          LET current == command_buffers[current_frame_index]
          IN  /\ (last'.op = "begin_swapchain_render_pass"
                    /\ is_frame_started
                    /\ begin_swapchain_render_pass_on(cb))
                  => /\ RecordedInto(calls', current)
                     /\ IF cb # current
                        THEN /\ aborted' = "Can't begin render pass on a command buffer from a different frame"
                             /\ calls' = <<>>
                        ELSE aborted' # "Can't begin render pass on a command buffer from a different frame"
              /\ (last'.op = "end_swapchain_render_pass"
                    /\ is_frame_started
                    /\ end_swapchain_render_pass_on(cb))
                  => /\ RecordedInto(calls', current)
                     /\ IF cb # current
                        THEN /\ aborted' = "Can't end render pass on a command buffer from a different frame"
                             /\ calls' = <<>>
                        ELSE /\ aborted' = "none"
                             /\ calls' = << <<"cmd_end_render_pass", cb,
                                              "Ok">> >> ]_vars

\* begin_swapchain_render_pass aborted on the command buffer of frame slot 0
\* during a frame on frame slot 1
C22_Witness ==
    /\ aborted = "Can't begin render pass on a command buffer from a different frame"
    /\ last = Ret("begin_swapchain_render_pass", "abort", 0)
    /\ is_frame_started
    /\ current_frame_index = 1
    /\ frame_calls = "begin"

\* object a was created from object b and references it
DependsOn(a, b) ==
    \/ /\ a[1] = "framebuffer"
       /\ \/ b[1] \in {"swapchain_image_view", "depth_image_view",
                       "image_view"} /\ b[2] = a[2]
          \/ b[1] = "render_pass"
    \/ a[1] = "swapchain_image_view" /\ b[1] = "swapchain"
    \/ a[1] = "depth_image_view" /\ b[1] = "depth_image" /\ b[2] = a[2]
    \/ a[1] = "font_image_view" /\ b[1] = "font_image"
    \/ a[1] = "pipeline" /\ b[1] \in {"pipeline_layout", "render_pass"}

\* no object of the destruction sequence ds is destroyed after an object it
\* depends on
DependentsFirst(ds) ==
    \A i \in 1 .. Len(ds) : \A j \in (i + 1) .. Len(ds) :
        ~DependsOn(ds[j], ds[i])

\* C23: in every destruction sequence the program performs (the drop of an
\* Application field, the update of the egui integration for a new
\* swapchain) each dependent object is destroyed before the objects it
\* depends on: framebuffers before their image views and render pass, image
\* views before their image or swapchain, pipelines before their layout and
\* render pass; and every such sequence runs while the device is alive.
C23_DependentsDestroyedFirst ==
    [][ last'.op \in {"drop", "update_swapchain"}
          => /\ device = "alive"
             /\ DependentsFirst(destroyed') ]_vars

\* C24: update aborts on its capacity assertion exactly when the mapping
\* holds more than MAX_LIGHTS point-light entities, whatever the number of
\* other entities and the order the mapping iterates in.
C24_AbortIffTooManyLights ==
    light_pc # "idle"
      => (light_pc = "aborted"
            <=> Cardinality(LightsOf(game_objects)) > MAX_LIGHTS)

\* the statements of Application::run after begin_frame returned a command
\* buffer
FrameStatements ==
    {"get_frame_index", "update", "begin_render_pass", "end_render_pass",
     "paint", "end_frame", "device_wait_idle"}

\* C25: a frame that has begun is completed within the same callback: with a
\* zero-area window run returns before begin_frame and acquires nothing;
\* after begin_frame returned a command buffer the callback ends only with
\* end_frame returning Ok, or the process panics, and one of the two happens;
\* so the renderer is idle whenever the event loop is between two callbacks,
\* and the recreation triggered by a resize, like the one inside begin_frame,
\* runs while no frame is in progress.
C25_FrameCompletedInCallback ==
    /\ [](callback = Boundary
            => ~is_frame_started /\ cpu = "ready" /\ aborted = "none")
    /\ [][ /\ (callback = Boundary /\ is_zero_extent(window_extent)
                 /\ last'.op \in {"run", "begin_frame"})
                => /\ last' = Ret("run", "Ok", 0)
                   /\ calls' = <<>>
                   /\ callback' = Boundary
                   /\ UNCHANGED << swapchain, is_frame_started, semaphores >>
           /\ (callback = Boundary /\ callback'.pc \in FrameStatements)
                => /\ last'.result = "OkSome"
                   /\ callback'.command_buffer = last'.value
                   /\ AcquireSucceeded(calls')
                   /\ is_frame_started'
           /\ (callback.pc \in FrameStatements /\ callback' = Boundary)
                => /\ last' = Ret("end_frame", "Ok", 0)
                   /\ ~is_frame_started'
           /\ (callback.pc \in FrameStatements /\ callback' # Boundary)
                => callback'.pc \in FrameStatements \cup {"fatal"}
           /\ resize_recreate_swapchain => ~is_frame_started
           /\ (run_begin_frame /\ Recorded(calls', "recreate_swapchain"))
                => ~is_frame_started /\ ~is_frame_started' ]_vars
    /\ (callback.pc \in FrameStatements
          ~> (callback = Boundary \/ callback = Fatal))

\* the event loop between two callbacks, after a frame that was begun and
\* completed on a recreated swapchain
C25_Witness ==
    /\ callback = Boundary
    /\ last = Ret("end_frame", "Ok", 0)
    /\ swapchain.swapchain_khr = 2
    /\ current_frame_index = 1
    /\ ~is_frame_started

\* C26: the requested image count is min_image_count + 1, or max_image_count
\* when that is non-zero and smaller; for every pair of limits the
\* computation completes, and the count is at least min_image_count and,
\* when max_image_count is non-zero, at most max_image_count.
C26_ImageCountClamped ==
    output.called
      => /\ output.panic = "none"
         /\ IF input.max_image_count # 0
               /\ input.min_image_count >= input.max_image_count
            THEN output.value = input.max_image_count
            ELSE output.value - 1 = input.min_image_count
         /\ output.value >= input.min_image_count
         /\ input.max_image_count # 0
              => output.value <= input.max_image_count

\* v is x brought into [lo, hi]
ClampedInto(v, x, lo, hi) ==
    /\ lo <= v /\ v <= hi
    /\ (lo <= x /\ x <= hi) => v = x
    /\ x < lo => v = lo
    /\ x > hi => v = hi

\* C27: choose_extent returns the surface's current extent unchanged when its
\* width is not u32::MAX; otherwise, in each dimension whose minimum does
\* not exceed its maximum, it returns the window's size clamped into
\* [min_image_extent, max_image_extent].
C27_ChooseExtent ==
    output.called
      => /\ output.panic = "none"
         /\ IF input.surface.current_extent[1] # U32_MAX
            THEN output.value = input.surface.current_extent
            ELSE \A i \in 1 .. 2 :
                   input.surface.min_image_extent[i]
                       <= input.surface.max_image_extent[i]
                     => ClampedInto(output.value[i], input.window_extent[i],
                                    input.surface.min_image_extent[i],
                                    input.surface.max_image_extent[i])

\* an open extent with a window too wide and too low for the surface
C27_Witness ==
    /\ output.called
    /\ input.surface.current_extent = UndefinedExtent
    /\ input.surface.min_image_extent = << 1, 1 >>
    /\ input.surface.max_image_extent = << 1, 2 >>
    /\ input.window_extent = << 2, 0 >>
    /\ output.value = << 1, 1 >>

\* the declaration the arguments of a call to add_binding describe
Declared(call) ==
    [binding |-> call.binding, descriptor_type |-> call.descriptor_type,
     descriptor_count |-> call.descriptor_count,
     stage_flags |-> call.stage_flags]

\* C28: add_binding aborts exactly when its binding index is already declared
\* on the builder; a call that does not abort adds the declaration made of
\* its arguments under its index and leaves the others as they are, so the
\* builder holds one declaration per declared index; build hands exactly the
\* held declarations to the device, each once, and keeps them in the layout
\* it returns.
C28_BindingDeclaredOnce ==
    /\ [](\A b \in DOMAIN builder.bindings : builder.bindings[b].binding = b)
    /\ [][ (add_binding /\ builder'.call.op = "add_binding")
             => /\ builder'.pc = "aborted"
                  <=> builder'.call.binding \in DOMAIN builder.bindings
                /\ builder'.pc = "aborted"
                  => builder'.bindings = builder.bindings
                /\ builder'.pc # "aborted"
                  => /\ DOMAIN builder'.bindings
                        = DOMAIN builder.bindings
                            \cup {builder'.call.binding}
                     /\ builder'.bindings[builder'.call.binding]
                        = Declared(builder'.call)
                     /\ \A b \in DOMAIN builder.bindings :
                          builder'.bindings[b] = builder.bindings[b] ]_vars
    /\ [][ (build /\ builder'.call.op = "build")
             => /\ builder'.bindings = builder.bindings
                /\ Len(builder'.set_layout_bindings)
                   = Cardinality(DOMAIN builder.bindings)
                /\ { builder'.set_layout_bindings[i] :
                       i \in DOMAIN builder'.set_layout_bindings }
                   = { builder.bindings[b] : b \in DOMAIN builder.bindings }
                /\ builder'.call.result = "Ok"
                     => builder'.layout.bindings = builder.bindings ]_vars

\* a layout built from declarations under all binding indices
C28_Witness ==
    /\ builder.pc = "built"
    /\ builder.call.result = "Ok"
    /\ DOMAIN builder.layout.bindings = BindingIndices
    /\ builder.set_layout_bindings[1].binding = MaxBinding

\* C29: whatever is at the path pipeline_cache.bin (nothing, a file that
\* cannot be read, bytes that are no cache data), PipelineCache::new does not
\* fail because of it and takes empty initial data when it cannot read it;
\* the drop that retrieved the cache contents leaves them in the file and
\* does not end the process; and a start after such a drop loads the bytes
\* the drop wrote.
C29_CacheFileNeverFatal ==
    /\ [][ cache'.call.op = "new" /\ cache.pc = "stopped"
             => /\ cache'.pc = "failed"
                  => cache'.call.create_pipeline_cache = "Err"
                /\ fs_read(file).result = "Err"
                  => cache'.initial_data = NoBytes
                /\ cache.written # NothingWritten
                  => cache'.initial_data = cache.written ]_vars
    /\ [][ (cache'.call.op = "drop" /\ cache.pc = "running"
            /\ cache'.call.get_pipeline_cache_data = "Ok")
             => /\ cache'.pc = "stopped"
                /\ file'.kind = "file"
                /\ file'.bytes = CacheData(cache.entries) ]_vars

\* C30: copy_buffer makes its device calls in the order allocate, record,
\* submit, wait for the queue, free; it has returned only when the copy it
\* submitted is complete; and the staging buffer is not destroyed while that
\* copy is executing.
C30_CopyCompleteBeforeReturn ==
    /\ upload.calls = SubSeq(CopySteps, 1, Len(upload.calls))
    /\ upload.pc = "returned" /\ upload.result = "Ok"
         => upload.calls = CopySteps
    /\ upload.pc = "returned" => upload.gpu # "executing"
    /\ upload.staging = "destroyed" => upload.gpu # "executing"

\* C31: from_file completes on every mesh and produces one vertex per
\* position; the colour of vertex i is (colors[3i], colors[3i+1],
\* colors[3i+2]) when the mesh has these three components, and white
\* otherwise.
C31_VertexColors ==
    output.called
      => /\ output.panic = "none"
         /\ Len(output.value) = input.vertex_count
         /\ \A i \in 0 .. (input.vertex_count - 1) :
              output.value[i + 1] =
                IF 3 * i + 2 < input.colors_len
                THEN << Component(3 * i), Component(3 * i + 1),
                        Component(3 * i + 2) >>
                ELSE << DefaultComponent, DefaultComponent,
                        DefaultComponent >>

\* C32: whenever no frame is in progress the Renderer's frame slot index
\* equals the stored swapchain's, so the command buffer of a frame and the
\* fence and semaphores of its acquire, submit and present are those of one
\* slot; also after swapchain recreations.
C32_FrameSlotsAgree ==
    (~is_frame_started /\ aborted = "none" /\ cpu = "ready")
      => current_frame_index = swapchain.current_frame

\* C33: every swapchain handle is destroyed once: a successful recreation
\* destroys the handle of the swapchain it replaces and leaves the new one
\* live, and the drop of the Renderer destroys the handle of the stored
\* swapchain, after which no handle is left.
C33_HandlesDestroyedOnce ==
    [][ /\ (recreate_swapchain /\ last'.op = "recreate_swapchain"
              /\ last'.result = "Ok" /\ calls' # << >>)
            => live_khr' = (live_khr \ {swapchain.swapchain_khr})
                             \cup {swapchain'.swapchain_khr}
        /\ (drop_field /\ last'.op = "drop" /\ Head(fields) = "renderer")
            => /\ swapchain.swapchain_khr \in live_khr
               /\ live_khr' = live_khr \ {swapchain.swapchain_khr} ]_vars

\* C34: a recreate_swapchain that returns an error leaves the Renderer as it
\* was, with the swapchain handle still in the stored swapchain, so that no
\* later acquire or submit aborts on a missing handle.
C34_FailedRecreateKeepsHandle ==
    /\ [][ (recreate_swapchain /\ last'.op = "recreate_swapchain"
              /\ last'.result # "Ok")
             => /\ swapchain'.swapchain_khr # NullHandle
                /\ UNCHANGED << swapchain, is_frame_started,
                                current_frame_index,
                                current_image_index >> ]_vars
    /\ [](aborted # "called Option::unwrap() on a None value")

\* C37: begin_frame leaves a frame in progress exactly when it returns a
\* command buffer; when it returns Ok(None) or an error no frame is in
\* progress and the frame slot and the image index are as before.
C37_FrameStartedIffBuffer ==
    [][ (begin_frame /\ last'.op = "begin_frame" /\ aborted' = "none")
          => /\ is_frame_started' <=> last'.result = "OkSome"
             /\ last'.result # "OkSome"
                  => UNCHANGED << current_frame_index,
                                  current_image_index >> ]_vars

\* end_frame returned an error (from submit_command_buffers or before it, or
\* from device_wait_idle)
EndFrameFailed ==
    /\ last'.op = "end_frame"
    /\ last'.result = "Err"

\* C38: when end_frame returns an error the frame stays in progress, the
\* Renderer's frame slot index is not advanced and no swapchain is created
\* or destroyed (an out-of-date present is not answered by a recreation); a
\* begin_frame that follows aborts on its assertion.
C38_EndFrameErrorKeepsFrame ==
    [][ /\ EndFrameFailed
            => /\ is_frame_started'
               /\ UNCHANGED << current_frame_index, next_handle, live_khr >>
               /\ swapchain'.swapchain_khr = swapchain.swapchain_khr
        /\ (last = Ret("end_frame", "Err", 0) /\ last'.op = "begin_frame")
            => aborted' = "Can't call begin_frame while already in progress"
      ]_vars

\* end_frame has returned the error of a failed present
C38_Witness ==
    /\ last = Ret("end_frame", "Err", 0)
    /\ calls[Len(calls)][1] = "queue_present"
    /\ calls[Len(calls)][3] = "Err"
    /\ is_frame_started
    /\ current_frame_index = 1
    /\ aborted = "none"

\* the fence the next call of the frame cycle waits on: the slot's fence in
\* acquire_next_image when no frame is in progress, the image's fence in
\* submit_command_buffers when one is
next_wait_fence ==
    IF ~is_frame_started THEN acquire_fence(swapchain)
    ELSE IF current_image_index \in DOMAIN swapchain.images_in_flight
    THEN swapchain.images_in_flight[current_image_index]
    ELSE NullHandle

\* a wait_for_fences issued now does not return
WaitBlocks ==
    /\ Ready
    /\ next_wait_fence # NullHandle
    /\ next_wait_fence \notin signaled

\* C39: no fence wait blocks forever: with a GPU that finishes every batch
\* submitted, a fence that acquire_next_image or submit_command_buffers
\* waits on gets signaled.
C39_FenceWaitsReturn == WaitBlocks ~> ~WaitBlocks

\* the GPU has not finished a batch that executes command_buffers[slot] and
\* reads ubo_buffers[slot] through global_descriptor_sets[slot]
SlotInUse(slot) ==
    \E i \in 1 .. Len(pending) :
        pending[i].buffer = current_command_buffer(slot)

\* begin_frame reached begin_command_buffer
BeginsRecording ==
    /\ begin_frame
    /\ calls' # << >>
    /\ calls'[Len(calls')][1] = "begin_command_buffer"

\* C40: the CPU never touches a resource of a frame slot the GPU still
\* uses: begin_frame does not begin recording the slot's command buffer,
\* and Application::run does not write the slot's uniform buffer, while a
\* batch recorded in that slot is unfinished.
C40_SlotNotInUse ==
    [][ /\ BeginsRecording => ~SlotInUse(current_frame_index)
        /\ run_update => ~SlotInUse(current_frame_index) ]_vars

\* the uniform buffer of slot 1 has been written for a frame whose acquire
\* waited on the fence of slot 0, after an earlier frame was submitted
C40_Witness ==
    /\ callback.pc = "begin_render_pass"
    /\ last = Ret("flush", "Ok", 0)
    /\ is_frame_started
    /\ current_frame_index = 1
    /\ swapchain.current_frame = 0
    /\ swapchain.swapchain_khr # 1
    /\ aborted = "none"

\* C35: the framebuffer on which paint begins its render pass was built from
\* an image of the swapchain the Renderer stores: the overlay's views and
\* framebuffers are rebuilt after every recreation, also the one begin_frame
\* does on an out-of-date acquire.
C35_PaintOnCurrentSwapchain ==
    [][ (run_paint /\ egui'.painted.begun)
          => /\ egui'.painted.framebuffer.live
             /\ egui'.painted.framebuffer.swapchain = swapchain.swapchain_khr
      ]_vars

\* C36: in every paint that gets past the font upload the image index is a
\* valid index of vertex_buffers, index_buffers, framebuffers and
\* font_descriptor_sets, whose lengths are the image count of the swapchain
\* in use.
C36_PerImageLengths ==
    [][ (run_paint /\ aborted' = "none" /\ egui'.result # "Err")
          => /\ current_image_index < egui'.vertex_buffers
             /\ current_image_index < egui'.index_buffers
             /\ current_image_index \in DOMAIN egui'.framebuffers
             /\ current_image_index < egui'.font_descriptor_sets
             /\ egui'.vertex_buffers = swapchain.image_count
             /\ egui'.index_buffers = swapchain.image_count
             /\ DOMAIN egui'.framebuffers = 0 .. (swapchain.image_count - 1)
             /\ egui'.font_descriptor_sets = swapchain.image_count ]_vars

====
